---- MODULE Spec2Model ----
(***************************************************************************)
(* A model of the support-chat application's mock backend                  *)
(* (services/apiService.ts) and of the view logic built on it.             *)
(*                                                                         *)
(* The persisted document (localStorage['atlas_app_db']) is the variable   *)
(* db; the session entry (sessionStorage['atlas_current_user']) is the     *)
(* variable session.  JavaScript objects are functions from key names to   *)
(* values, so that an absent key, a spread merge and a whole replacement   *)
(* are what they are in the code.  Strings the code folds to lower case or *)
(* searches are sequences of one-character strings; strings the code only  *)
(* compares or stores are TLA+ strings.                                    *)
(***************************************************************************)
EXTENDS Integers, Sequences, FiniteSets, TLC

VARIABLES
  db,       \* the parsed content of localStorage['atlas_app_db']
  session,  \* sessionStorage['atlas_current_user']: <<>> (no entry) or <<user>>
  now,      \* Date.now()
  pending,  \* API calls whose simulated delay has not elapsed yet (timer queue)
  call,     \* the API call or view function that ran last, with its arguments
  result,   \* what that call returned
  pre,      \* the persisted document as that call found it
  steps,    \* number of API calls issued so far
  view      \* what lives outside the two stores: component state, a tab's copy

vars == <<db, session, now, pending, call, result, pre, steps, view>>

----------------------------------------------------------------------------
(* Bounds of the model.                                                    *)

\* API calls issued in one behaviour
MaxSteps == 3
\* saves made in a view in one behaviour
MaxSaves == 2
\* API calls in flight at the same time
MaxPending == 2
\* clock value at which the behaviours start
StartTime == 1000
\* milliseconds by which the clock may stand past a multiple of the latency
MaxDrift == 1
\* stored users / conversations in the pagination inputs
MaxRecords == 16
\* largest page size and page number requested in the pagination inputs
MaxLimit == 11
MaxPage == 4

----------------------------------------------------------------------------
(* Strings: String.prototype.toLowerCase and String.prototype.includes.    *)

UpperCaseLetters ==
  <<"A","B","C","D","E","F","G","H","I","J","K","L","M",
    "N","O","P","Q","R","S","T","U","V","W","X","Y","Z">>
LowerCaseLetters ==
  <<"a","b","c","d","e","f","g","h","i","j","k","l","m",
    "n","o","p","q","r","s","t","u","v","w","x","y","z">>

LowerOf ==
  [c \in {UpperCaseLetters[i] : i \in 1..26} |->
     LowerCaseLetters[CHOOSE i \in 1..26 : UpperCaseLetters[i] = c]]
UpperOf ==
  [c \in {LowerCaseLetters[i] : i \in 1..26} |->
     UpperCaseLetters[CHOOSE i \in 1..26 : LowerCaseLetters[i] = c]]

LowerChar(c) == IF c \in DOMAIN LowerOf THEN LowerOf[c] ELSE c
UpperChar(c) == IF c \in DOMAIN UpperOf THEN UpperOf[c] ELSE c

toLowerCase(s) == [i \in 1..Len(s) |-> LowerChar(s[i])]

\* s.includes(t): t occurs in s as a contiguous substring
includes(s, t) ==
  \E i \in 0..(Len(s) - Len(t)) : SubSeq(s, i + 1, i + Len(t)) = t

\* provider.charAt(0).toUpperCase() + provider.slice(1)
Capitalize(s) == IF s = <<>> THEN s ELSE <<UpperChar(s[1])>> \o Tail(s)

----------------------------------------------------------------------------
(* JavaScript objects.                                                      *)

\* { ...a, ...b }
Spread(a, b) ==
  [k \in (DOMAIN a) \cup (DOMAIN b) |-> IF k \in DOMAIN b THEN b[k] ELSE a[k]]

\* delete o[key]
DeleteKey(o, key) == [k \in (DOMAIN o) \ {key} |-> o[k]]

\* Array.prototype.findIndex, 1-based; 0 stands for JavaScript's -1
FindIndex(xs, P(_)) ==
  IF \E i \in 1..Len(xs) : P(xs[i])
  THEN CHOOSE i \in 1..Len(xs) : P(xs[i]) /\ \A j \in 1..(i - 1) : ~P(xs[j])
  ELSE 0

\* Array.prototype.slice(begin, end) for 0 <= begin, 0-based, end exclusive
Slice(xs, begin, end) ==
  LET hi == IF end < Len(xs) THEN end ELSE Len(xs)
  IN  IF begin >= hi THEN <<>> ELSE SubSeq(xs, begin + 1, hi)

\* Array.prototype.reverse
Reverse(xs) == [i \in 1..Len(xs) |-> xs[Len(xs) + 1 - i]]

\* Math.ceil(n / d) for n >= 0, d >= 1
CeilDiv(n, d) == (n + d - 1) \div d

----------------------------------------------------------------------------
(* constants.ts                                                             *)

USER_ROLES == <<"admin", "manager", "supervisor", "support", "client">>

\* Array.prototype.indexOf on USER_ROLES, 0-based, -1 when absent
RoleIndex(role) ==
  IF \E i \in 1..Len(USER_ROLES) : USER_ROLES[i] = role
  THEN (CHOOSE i \in 1..Len(USER_ROLES) : USER_ROLES[i] = role) - 1
  ELSE -1

AllCapabilities ==
  [canViewDashboard |-> TRUE, canManageUsers |-> TRUE, canManageRoles |-> TRUE,
   canManageKB |-> TRUE, canViewModelConfig |-> TRUE, canEditModelConfig |-> TRUE,
   canViewCompanySettings |-> TRUE, canEditCompanySettings |-> TRUE,
   canViewChatLogs |-> TRUE, canViewSmtpSettings |-> TRUE,
   canEditSmtpSettings |-> TRUE, canCustomizePanel |-> TRUE,
   canManageBackups |-> TRUE, canImportUsers |-> TRUE]

NoCapabilities == [k \in DOMAIN AllCapabilities |-> FALSE]

DEFAULT_PERMISSIONS ==
  [admin |-> AllCapabilities,
   manager |-> AllCapabilities,
   supervisor |->
     [k \in DOMAIN AllCapabilities |->
        k \in {"canViewDashboard", "canManageUsers", "canManageKB",
               "canViewModelConfig", "canViewCompanySettings", "canViewChatLogs"}],
   support |->
     [k \in DOMAIN AllCapabilities |->
        k \in {"canViewDashboard", "canManageKB", "canViewChatLogs"}],
   client |-> NoCapabilities]

\* `kb-${n}`
KbId(n) == <<"kb", n>>

INITIAL_KNOWLEDGE_BASE ==
  << [id |-> KbId(1), tag |-> "Welcome",
      content |-> "Welcome to Atlas AI Support Assistant. Our goal is to provide you with the best support possible.",
      lastUpdated |-> StartTime, updatedBy |-> "system"],
     [id |-> KbId(2), tag |-> "Hours",
      content |-> "Our support hours are from 9 AM to 5 PM, Monday through Friday.",
      lastUpdated |-> StartTime, updatedBy |-> "system"] >>

DEFAULT_PROVIDER == "google"
DEFAULT_MODEL == "gemini-2.5-flash"

----------------------------------------------------------------------------
(* apiService.ts: the default database written by initializeDB.            *)

SIMULATED_LATENCY == 300

defaultUsers ==
  << [username |-> <<"a", "d", "m", "i", "n">>, password |-> "password",
      firstName |-> <<"T", "e", "c", "h", "n", "i", "c", "a", "l">>, lastName |-> <<"A", "d", "m", "i", "n">>,
      email |-> <<"a", "d", "m", "i", "n", "@", "a", "t", "l", "a", "s", ".", "l", "o", "c", "a", "l">>, mobile |-> "123-456-7890",
      role |-> "admin", emailVerified |-> TRUE,
      ip |-> "127.0.0.1", device |-> "Desktop", os |-> "Windows"],
     [username |-> <<"m", "a", "n", "a", "g", "e", "r">>, password |-> "password",
      firstName |-> <<"M", "a", "n", "a", "g", "e", "r">>, lastName |-> <<"U", "s", "e", "r">>,
      email |-> <<"m", "a", "n", "a", "g", "e", "r", "@", "a", "t", "l", "a", "s", ".", "l", "o", "c", "a", "l">>, mobile |-> "111-222-3333",
      role |-> "manager", emailVerified |-> TRUE,
      ip |-> "192.168.1.10", device |-> "Laptop", os |-> "macOS"],
     [username |-> <<"c", "l", "i", "e", "n", "t">>, password |-> "password",
      firstName |-> <<"C", "l", "i", "e", "n", "t">>, lastName |-> <<"U", "s", "e", "r">>,
      email |-> <<"c", "l", "i", "e", "n", "t", "@", "a", "t", "l", "a", "s", ".", "l", "o", "c", "a", "l">>, mobile |-> "",
      role |-> "client", emailVerified |-> TRUE,
      ip |-> "127.0.0.1", device |-> "Mobile", os |-> "Android"] >>

\* Texts in Persian are stored and returned, never inspected: each stands as
\* an opaque value here.
defaultDb ==
  [users |-> defaultUsers,
   permissions |-> DEFAULT_PERMISSIONS,
   knowledgeBase |-> INITIAL_KNOWLEDGE_BASE,
   modelConfig |->
     [provider |-> DEFAULT_PROVIDER, model |-> DEFAULT_MODEL,
      temperature |-> "0.7", topP |-> "0.9", topK |-> 40,
      customInstruction |-> "Be friendly and professional. Keep answers concise."],
   companyInfo |->
     [logo |-> "null",
      en |-> [name |-> "Atlas Corp.",
              about |-> "Welcome to the Atlas AI Assistant. Your partner in providing instant, accurate information. Ask me anything about our services, policies, or products."],
      fa |-> [name |-> "fa:name", about |-> "fa:about"]],
   panelConfig |->
     [aiNameEn |-> "Atlas", aiNameFa |-> "fa:aiName",
      chatHeaderTitleEn |-> "Conversation with Atlas",
      chatHeaderTitleFa |-> "fa:chatHeaderTitle",
      chatPlaceholderEn |-> "Type your message here...",
      chatPlaceholderFa |-> "fa:chatPlaceholder",
      welcomeMessageEn |-> "Hello! How can I help you today?",
      welcomeMessageFa |-> "fa:welcomeMessage",
      aiAvatar |-> "null",
      privacyPolicyEn |-> "This is the default Privacy Policy. Please replace this content in the admin panel.",
      privacyPolicyFa |-> "fa:privacyPolicy",
      termsOfServiceEn |-> "These are the default Terms of Service. Please replace this content in the admin panel.",
      termsOfServiceFa |-> "fa:termsOfService"],
   smtpConfig |->
     [host |-> "", port |-> 587, secure |-> FALSE, username |-> "",
      emailTemplates |->
        [passwordReset |->
           [subject |-> "Your Password Reset Link",
            body |-> "Hello {{name}}, Please use the following link to reset your password: {{reset_link}} If you did not request this, please ignore this email."],
         emailVerification |->
           [subject |-> "Verify Your Email Address",
            body |-> "Hello {{name}}, Please click this link to verify your email address: {{verification_link}}"]]],
   chatLogs |-> <<>>,
   backupSchedule |->
     [enabled |-> FALSE, frequency |-> "daily", dayOfWeek |-> 1, time |-> "02:00"],
   googleDriveConfig |-> [connected |-> FALSE, email |-> "null"],
   customOpenRouterModels |-> <<>>]

\* The document is kept as a parsed value: saveDB stringifies it and getDB
\* parses it back.  JSON.stringify leaves out a key whose value is undefined,
\* which is how an object written with password: undefined loses that key.
Undefined == "undefined"

\* o[key] in JavaScript: undefined when the key is absent
Get(o, key) == IF key \in DOMAIN o THEN o[key] ELSE Undefined

\* JSON.parse(JSON.stringify(o)) on an object whose only key that may hold
\* undefined is `key`
JsonRoundTrip(o, key) ==
  IF key \in DOMAIN o /\ o[key] = Undefined THEN DeleteKey(o, key) ELSE o

----------------------------------------------------------------------------
(* apiService.ts: getDB / saveDB.  saveDB stores JSON.stringify(db) and     *)
(* getDB parses it back, so what is stored is the value after a JSON round  *)
(* trip: a password key holding undefined is gone from the stored object.   *)

saveDB(d) ==
  [d EXCEPT !.smtpConfig = JsonRoundTrip(@, "password"),
            !.users = [i \in 1..Len(@) |-> JsonRoundTrip(@[i], "password")]]

\* What localStorage.getItem(DB_KEY) returns when it is not the text of a
\* document: null (no entry), the empty string, or a text that JSON.parse
\* rejects with a SyntaxError.
NoItem == [absent |-> TRUE]
EmptyItem == [empty |-> TRUE]
Unparsable(text) == [unparsable |-> text]

IsFalsy(rawDb) == DOMAIN rawDb \in {{"absent"}, {"empty"}}
JsonParseThrows(rawDb) == DOMAIN rawDb = {"unparsable"}

\* saveDB(defaultDb); return defaultDb
initializeDB == [db |-> saveDB(defaultDb), ret |-> defaultDb]

\* a getDB without the catch: the SyntaxError of JSON.parse reaches the caller
readDBRethrowing(rawDb) ==
  IF JsonParseThrows(rawDb) THEN [db |-> rawDb, threw |-> "SyntaxError"]
  ELSE IF IsFalsy(rawDb) THEN initializeDB
  ELSE [db |-> rawDb, ret |-> rawDb]

\* getDB on the stored item rawDb: ret is the document it returns and db is
\* what the store holds afterwards
readDB(rawDb) ==
  IF IsFalsy(rawDb) \/ JsonParseThrows(rawDb) THEN initializeDB
  ELSE [db |-> rawDb, ret |-> rawDb]

getDB == readDB(db).ret

NoSession == <<>>

\* JSON.parse(sessionStorage.getItem(SESSION_KEY)), with <<>> for null
getCurrentUser == session

----------------------------------------------------------------------------
(* apiService.ts: authentication.  Each operator is the synchronous block   *)
(* that runs once the call's simulated delay has elapsed; it returns the    *)
(* document and session entry it leaves and the value the call resolves to. *)

SameNameIgnoringCase(a, b) == toLowerCase(a) = toLowerCase(b)

PASSKEY_PASSWORD == "passkey_authenticated"

\* a login that signs the current user out when it fails
loginEndingSessionOnFailure(d, s, username, password) ==
  LET i == FindIndex(d.users, LAMBDA u : SameNameIgnoringCase(u.username, username))
  IN  IF i # 0 /\ (Get(d.users[i], "password") = password \/ password = PASSKEY_PASSWORD)
      THEN [db |-> d, session |-> <<d.users[i]>>,
            ret |-> [success |-> TRUE, user |-> d.users[i]]]
      ELSE [db |-> d, session |-> NoSession,
            ret |-> [success |-> FALSE, message |-> "Invalid username or password."]]

login(d, s, username, password) ==
  LET i == FindIndex(d.users, LAMBDA u : SameNameIgnoringCase(u.username, username))
  IN  IF i # 0 /\ (Get(d.users[i], "password") = password \/ password = PASSKEY_PASSWORD)
      THEN [db |-> d, session |-> <<d.users[i]>>,
            ret |-> [success |-> TRUE, user |-> d.users[i]]]
      ELSE [db |-> d, session |-> s,
            ret |-> [success |-> FALSE, message |-> "Invalid username or password."]]

\* `${provider}-user@example.com`
SocialEmail(provider) == provider \o <<"-", "u", "s", "e", "r", "@", "e", "x", "a", "m", "p", "l", "e", ".", "c", "o", "m">>

socialLogin(d, s, provider) ==
  LET email == SocialEmail(provider)
      i == FindIndex(d.users, LAMBDA u : u.email = email)
      newUser == [username |-> provider \o <<"u", "s", "e", "r">>,
                  firstName |-> Capitalize(provider), lastName |-> <<"U", "s", "e", "r">>,
                  email |-> email, mobile |-> "", role |-> "client",
                  emailVerified |-> TRUE,
                  ip |-> "127.0.0.1", device |-> "Social Login", os |-> "Unknown"]
      user == IF i # 0 THEN d.users[i] ELSE newUser
      d2 == IF i # 0 THEN d
            ELSE saveDB([d EXCEPT !.users = Append(d.users, newUser)])
  IN  [db |-> d2, session |-> <<user>>, ret |-> [success |-> TRUE, user |-> user]]

logout(d, s) == [db |-> d, session |-> NoSession, ret |-> "void"]

loginWithPasskey(d, username) ==
  LET i == FindIndex(d.users, LAMBDA u : SameNameIgnoringCase(u.username, username))
  IN  IF i # 0
      THEN [success |-> TRUE,
            user |-> [username |-> d.users[i].username,
                      firstName |-> d.users[i].firstName,
                      lastName |-> d.users[i].lastName, role |-> d.users[i].role]]
      ELSE [success |-> FALSE,
            message |-> "Passkey login failed. User not found or no passkey registered."]

----------------------------------------------------------------------------
(* apiService.ts: user management.                                          *)

addUserCaseSensitive(d, userData) ==
  IF \E i \in 1..Len(d.users) : d.users[i].username = userData.username
  THEN [db |-> d, ret |-> [success |-> FALSE, message |-> "Username already exists."]]
  ELSE [db |-> saveDB([d EXCEPT !.users =
                   Append(d.users, Spread(userData, [ip |-> "N/A", device |-> "N/A", os |-> "N/A"]))]),
        ret |-> [success |-> TRUE]]

addUser(d, userData) ==
  IF \E i \in 1..Len(d.users) : SameNameIgnoringCase(d.users[i].username, userData.username)
  THEN [db |-> d, ret |-> [success |-> FALSE, message |-> "Username already exists."]]
  ELSE [db |-> saveDB([d EXCEPT !.users =
                   Append(d.users, Spread(userData, [ip |-> "N/A", device |-> "N/A", os |-> "N/A"]))]),
        ret |-> [success |-> TRUE]]

\* updateUser up to its `await getCurrentUser()`: found is FALSE when the call
\* returned 'User not found.' instead of reaching the await.
updateUser(d, username, updateData) ==
  LET i == FindIndex(d.users, LAMBDA u : u.username = username)
      data == IF Get(updateData, "password") = ""
              THEN DeleteKey(updateData, "password") ELSE updateData
  IN  IF i = 0
      THEN [db |-> d, found |-> FALSE,
            ret |-> [success |-> FALSE, message |-> "User not found."]]
      ELSE LET merged == Spread(d.users[i], data)
           IN  [db |-> saveDB([d EXCEPT !.users[i] = merged]), found |-> TRUE,
                user |-> merged]

\* updateUser after the await: currentUser is the session entry read by
\* getCurrentUser, user is db.users[userIndex] of the caller's copy.
updateUserResume(s, username, user) ==
  IF s # NoSession /\ s[1].username = username
  THEN [session |-> <<user>>, ret |-> [success |-> TRUE, user |-> user]]
  ELSE [session |-> s, ret |-> [success |-> TRUE]]

RECURSIVE importLoop(_, _)
importLoop(users, rows) ==
  IF rows = <<>> THEN users
  ELSE LET importUser == Head(rows)
           i == FindIndex(users, LAMBDA u : SameNameIgnoringCase(u.username, importUser.username))
       IN  importLoop(IF i # 0
                      THEN [users EXCEPT ![i] = Spread(users[i], importUser)]
                      ELSE Append(users, importUser),
                      Tail(rows))

importUsers(d, rows) ==
  [db |-> saveDB([d EXCEPT !.users = importLoop(d.users, rows)]),
   ret |-> [success |-> TRUE]]

deleteUser(d, username) ==
  [db |-> saveDB([d EXCEPT !.users = SelectSeq(d.users, LAMBDA u : u.username # username)]),
   ret |-> [success |-> TRUE]]

----------------------------------------------------------------------------
(* UserManagement view: the guard of the edit and delete controls.          *)

canManageUserOrPeer(currentUser, targetUser) ==
  IF currentUser.username = targetUser.username THEN FALSE
  ELSE IF targetUser.role = "admin" THEN FALSE
  ELSE RoleIndex(currentUser.role) <= RoleIndex(targetUser.role)

canManageUser(currentUser, targetUser) ==
  IF currentUser.username = targetUser.username THEN FALSE
  ELSE IF targetUser.role = "admin" THEN FALSE
  ELSE RoleIndex(currentUser.role) < RoleIndex(targetUser.role)

----------------------------------------------------------------------------
(* Inputs of the user operations.                                           *)

\* formData of the user form (UserFormModal) as submitted for a new user
FormUser(username, password, role) ==
  [username |-> username, password |-> password,
   firstName |-> <<"N", "e", "w">>, lastName |-> <<"U", "s", "e", "r">>,
   email |-> username \o <<"@", "x", ".", "i", "o">>, mobile |-> "",
   role |-> role, emailVerified |-> FALSE, ip |-> "", device |-> "", os |-> ""]

\* one parsed line of an import file (ImportUsersModal.confirmImport)
ImportRow(username, role) ==
  [username |-> username, password |-> "imported",
   firstName |-> <<"I", "m", "p">>, lastName |-> <<"O", "r", "t", "e", "d">>,
   email |-> username \o <<"@", "y", ".", "i", "o">>, mobile |-> "555-1234",
   role |-> role, emailVerified |-> FALSE, ip |-> "", device |-> "", os |-> ""]

NewUserInputs ==
  {FormUser(<<"A", "d", "m", "i", "n">>, "secret", "support"),
   FormUser(<<"b", "o", "b">>, "secret", "supervisor"),
   FormUser(<<"G", "o", "o", "g", "l", "e", "U", "s", "e", "r">>, "secret", "support")}

LoginNames == {<<"A", "d", "m", "i", "n">>, <<"m", "a", "n", "a", "g", "e", "r">>, <<"b", "o", "b">>}
LoginPasswords == {"password", "secret", PASSKEY_PASSWORD}
PasskeyNames == {<<"A", "d", "m", "i", "n">>, <<"b", "o", "b">>}
SocialProviders == {<<"g", "o", "o", "g", "l", "e">>, <<"m", "i", "c", "r", "o", "s", "o", "f", "t">>}

UpdateTargets == {<<"a", "d", "m", "i", "n">>, <<"m", "a", "n", "a", "g", "e", "r">>, <<"b", "o", "b">>}
\* the payloads the callers of updateUser send: the user form (username
\* field disabled while editing), and the profile and mobile prompts of the
\* logged-in user
UpdatePayloads(username) ==
  {[username |-> username, password |-> "", role |-> "support"],
   [username |-> username, password |-> "changed", role |-> "supervisor"],
   [mobile |-> "555-0100"]}

ImportInputs ==
  {<<ImportRow(<<"b", "o", "b">>, "client")>>,
   <<ImportRow(<<"A", "D", "M", "I", "N">>, "client"), ImportRow(<<"c", "a", "r", "o", "l">>, "support")>>,
   <<ImportRow(<<"d", "a", "v", "e">>, "client"), ImportRow(<<"D", "a", "v", "e">>, "support")>>}

DeleteTargets == {<<"m", "a", "n", "a", "g", "e", "r">>, <<"b", "o", "b">>, <<"C", "l", "i", "e", "n", "t">>}

----------------------------------------------------------------------------
(* The user operations as steps.  An API call takes effect in one step, at  *)
(* the end of its simulated delay: its arguments are fixed when it is       *)
(* issued and it reads nothing before the delay has elapsed.  What follows  *)
(* a further await inside a handler is a second step, kept in pending.      *)

\* no component mounted, no second tab
NoView == [screen |-> "none"]

Apply(c, d, s, ret) ==
  /\ db' = d
  /\ session' = s
  /\ call' = c
  /\ result' = ret
  /\ pre' = db

RemoveAt(q, i) == SubSeq(q, 1, i - 1) \o SubSeq(q, i + 1, Len(q))

Login(username, password) ==
  /\ steps < MaxSteps
  /\ LET r == login(getDB, session, username, password)
     IN  Apply([op |-> "login", via |-> "form", username |-> username,
                password |-> password], r.db, r.session, r.ret)
  /\ steps' = steps + 1
  /\ UNCHANGED <<now, pending, view>>

\* LoginPage.handlePasskeyLogin: loginWithPasskey, then, when it succeeded,
\* onLogin(passkeyUsername, 'passkey_authenticated')
PasskeyLogin(username) ==
  /\ steps < MaxSteps
  /\ Len(pending) < MaxPending
  /\ LET r == loginWithPasskey(getDB, username)
     IN  /\ Apply([op |-> "loginWithPasskey", username |-> username], db, session, r)
         /\ pending' = IF r.success
                       THEN Append(pending, [op |-> "login", via |-> "passkey",
                                             username |-> username,
                                             password |-> PASSKEY_PASSWORD])
                       ELSE pending
  /\ steps' = steps + 1
  /\ UNCHANGED <<now, view>>

SocialLogin(provider) ==
  /\ steps < MaxSteps
  /\ LET r == socialLogin(getDB, session, provider)
     IN  Apply([op |-> "socialLogin", provider |-> provider], r.db, r.session, r.ret)
  /\ steps' = steps + 1
  /\ UNCHANGED <<now, pending, view>>

Logout ==
  /\ steps < MaxSteps
  /\ LET r == logout(getDB, session)
     IN  Apply([op |-> "logout"], r.db, r.session, r.ret)
  /\ steps' = steps + 1
  /\ UNCHANGED <<now, pending, view>>

AddUser(userData) ==
  /\ steps < MaxSteps
  /\ LET r == addUser(getDB, userData)
     IN  Apply([op |-> "addUser", userData |-> userData], r.db, session, r.ret)
  /\ steps' = steps + 1
  /\ UNCHANGED <<now, pending, view>>

UpdateUser(username, updateData) ==
  /\ steps < MaxSteps
  /\ Len(pending) < MaxPending
  /\ LET r == updateUser(getDB, username, updateData)
         c == [op |-> "updateUser", username |-> username, updateData |-> updateData]
     IN  IF r.found
         THEN /\ Apply(c, r.db, session, [awaiting |-> "getCurrentUser"])
              /\ pending' = Append(pending, [op |-> "updateUser", username |-> username,
                                             user |-> r.user])
         ELSE /\ Apply(c, r.db, session, r.ret)
              /\ pending' = pending
  /\ steps' = steps + 1
  /\ UNCHANGED <<now, view>>

ImportUsers(rows) ==
  /\ steps < MaxSteps
  /\ LET r == importUsers(getDB, rows)
     IN  Apply([op |-> "importUsers", users |-> rows], r.db, session, r.ret)
  /\ steps' = steps + 1
  /\ UNCHANGED <<now, pending, view>>

DeleteUser(username) ==
  /\ steps < MaxSteps
  /\ LET r == deleteUser(getDB, username)
     IN  Apply([op |-> "deleteUser", username |-> username], r.db, session, r.ret)
  /\ steps' = steps + 1
  /\ UNCHANGED <<now, pending, view>>

\* the login that handlePasskeyLogin issued completes
ResumeLogin(i) ==
  /\ pending[i].op = "login"
  /\ LET p == pending[i]
         r == login(getDB, session, p.username, p.password)
     IN  Apply([op |-> "login", via |-> p.via, username |-> p.username,
                password |-> p.password], r.db, r.session, r.ret)
  /\ pending' = RemoveAt(pending, i)
  /\ UNCHANGED <<now, steps, view>>

\* updateUser continues after `await getCurrentUser()`
ResumeUpdateUser(i) ==
  /\ pending[i].op = "updateUser"
  /\ LET p == pending[i]
         r == updateUserResume(getCurrentUser, p.username, p.user)
     IN  Apply([op |-> "updateUser.resume", username |-> p.username], db, r.session, r.ret)
  /\ pending' = RemoveAt(pending, i)
  /\ UNCHANGED <<now, steps, view>>

InitUsers ==
  /\ db = defaultDb
  /\ session = NoSession
  /\ now = StartTime
  /\ pending = <<>>
  /\ call = [op |-> "none"]
  /\ result = [success |-> TRUE]
  /\ pre = defaultDb
  /\ steps = 0
  /\ view = NoView

NextUsers ==
  \/ \E u \in LoginNames, p \in LoginPasswords : Login(u, p)
  \/ \E u \in PasskeyNames : PasskeyLogin(u)
  \/ \E p \in SocialProviders : SocialLogin(p)
  \/ Logout
  \/ \E u \in NewUserInputs : AddUser(u)
  \/ \E u \in UpdateTargets : \E data \in UpdatePayloads(u) : UpdateUser(u, data)
  \/ \E rows \in ImportInputs : ImportUsers(rows)
  \/ \E u \in DeleteTargets : DeleteUser(u)
  \/ \E i \in 1..Len(pending) : ResumeLogin(i)
  \/ \E i \in 1..Len(pending) : ResumeUpdateUser(i)

SpecUsers == InitUsers /\ [][NextUsers]_vars

----------------------------------------------------------------------------
(* UserManagement view as a step: a row of the user list is rendered for   *)
(* the logged-in user (currentUser) and the row's user (targetUser).        *)

ManageNames == {<<"a", "l", "i", "c", "e">>, <<"b", "o", "b">>, <<"c", "a", "r", "o", "l">>}
ManageUsers ==
  {FormUser(n, "secret", USER_ROLES[r]) : n \in ManageNames, r \in 1..Len(USER_ROLES)}

RenderUserRow(targetUser) ==
  /\ session # NoSession
  /\ call' = [op |-> "canManageUser", currentUser |-> session[1],
              targetUser |-> targetUser]
  /\ result' = canManageUser(session[1], targetUser)
  /\ pre' = db
  /\ UNCHANGED <<db, session, now, pending, steps, view>>

InitManage ==
  /\ db = defaultDb
  /\ session \in {<<u>> : u \in ManageUsers}
  /\ now = StartTime
  /\ pending = <<>>
  /\ call = [op |-> "none"]
  /\ result = FALSE
  /\ pre = defaultDb
  /\ steps = 0
  /\ view = NoView

NextManage == \E t \in ManageUsers : RenderUserRow(t)

SpecManage == InitManage /\ [][NextManage]_vars

----------------------------------------------------------------------------
(* Properties of the user store and of login (SpecUsers).                   *)

UsernamesUniqueIgnoringCase(users) ==
  \A i, j \in 1..Len(users) :
     i # j => ~SameNameIgnoringCase(users[i].username, users[j].username)

\* C1: after any sequence of addUser, importUsers, socialLogin, updateUser
\* and deleteUser calls from the default database, no two stored users have
\* usernames that are equal ignoring case.
C1_UsernamesUnique == UsernamesUniqueIgnoringCase(db.users)

\* C2: addUser with a username that equals an existing user's username
\* ignoring case returns success = false with a message and leaves the
\* persisted document as it found it.
C2_DuplicateAddRejected ==
  (/\ call.op = "addUser"
   /\ \E i \in 1..Len(pre.users) :
         SameNameIgnoringCase(pre.users[i].username, call.userData.username))
  => (/\ result.success = FALSE
      /\ "message" \in DOMAIN result
      /\ db = pre)

\* C2 witness: an addUser whose username differs from a stored one only in
\* case has been rejected.
C2_Witness ==
  /\ call.op = "addUser"
  /\ \E i \in 1..Len(pre.users) :
        /\ SameNameIgnoringCase(pre.users[i].username, call.userData.username)
        /\ pre.users[i].username # call.userData.username
  /\ result.success = FALSE

\* C4: a login submitted through the username/password form succeeds and
\* sets the session only if a user with that username exists whose stored
\* password equals the supplied one.
C4_LoginNeedsStoredPassword ==
  (/\ call.op = "login"
   /\ call.via = "form"
   /\ result.success)
  => \E i \in 1..Len(pre.users) :
        /\ SameNameIgnoringCase(pre.users[i].username, call.username)
        /\ Get(pre.users[i], "password") = call.password
        /\ session = <<pre.users[i]>>

----------------------------------------------------------------------------
(* Properties of canManageUser (SpecManage).                                *)

\* the order admin > manager > supervisor > support > client, written out
RanksAbove ==
  {<<"admin", "manager">>, <<"admin", "supervisor">>, <<"admin", "support">>,
   <<"admin", "client">>, <<"manager", "supervisor">>, <<"manager", "support">>,
   <<"manager", "client">>, <<"supervisor", "support">>,
   <<"supervisor", "client">>, <<"support", "client">>}

\* C3: canManageUser(actor, target) is true exactly when target is not the
\* actor, target is no admin and the actor's role ranks strictly above the
\* target's; so a supervisor never manages a manager or an admin, a manager
\* manages a supervisor or a support user, and nobody manages a peer or
\* themselves.
C3_CanManageUserExact ==
  call.op = "canManageUser" =>
    LET actor == call.currentUser
        target == call.targetUser
    IN  /\ result = (/\ target.username # actor.username
                     /\ target.role # "admin"
                     /\ <<actor.role, target.role>> \in RanksAbove)
        /\ (actor.role = "supervisor" /\ target.role \in {"manager", "admin"})
              => result = FALSE
        /\ (/\ actor.role = "manager"
            /\ target.role \in {"supervisor", "support"}
            /\ target.username # actor.username) => result = TRUE
        /\ (actor.role = target.role \/ actor.username = target.username)
              => result = FALSE

\* C3 witness: a manager's view has rendered the row of a supervisor and the
\* controls are offered.
C3_Witness ==
  /\ call.op = "canManageUser"
  /\ call.currentUser.role = "manager"
  /\ call.targetUser.role = "supervisor"
  /\ result = TRUE

----------------------------------------------------------------------------
(* apiService.ts: knowledge base.  Date.now() is the variable now.          *)

addKnowledgeEntry(d, entry, clock) ==
  LET newEntry == Spread(entry, [id |-> KbId(clock)])
  IN  [db |-> saveDB([d EXCEPT !.knowledgeBase = Append(d.knowledgeBase, newEntry)]),
       ret |-> newEntry]

\* updateKnowledgeEntry up to its return: found is FALSE when it returns
\* addKnowledgeEntry(entry), a second call with a delay of its own.
updateKnowledgeEntry(d, entry) ==
  LET index == FindIndex(d.knowledgeBase, LAMBDA e : e.id = entry.id)
  IN  IF index # 0
      THEN [db |-> saveDB([d EXCEPT !.knowledgeBase[index] = entry]),
            found |-> TRUE, ret |-> entry]
      ELSE [db |-> d, found |-> FALSE]

deleteKnowledgeEntry(d, id) ==
  [db |-> saveDB([d EXCEPT !.knowledgeBase =
                    SelectSeq(d.knowledgeBase, LAMBDA e : e.id # id)]),
   ret |-> [success |-> TRUE]]

----------------------------------------------------------------------------
(* The knowledge-base operations as steps.  A call is issued (its timer is  *)
(* set for now + SIMULATED_LATENCY), the clock advances, and the call's     *)
(* block runs when its timer fires, no earlier than its due time; timers    *)
(* fire in the order of their due times, and in the order they were set     *)
(* when these are equal.                                                     *)

\* { ...formData, lastUpdated: Date.now(), updatedBy } of handleSaveEntry
KbFormData == {[tag |-> "Returns", content |-> "30 days."],
               [tag |-> "Shipping", content |-> "Worldwide."]}
NewKbEntry(formData, clock) ==
  Spread(formData, [lastUpdated |-> clock, updatedBy |-> "admin"])

StoredKbIds == {db.knowledgeBase[i].id : i \in 1..Len(db.knowledgeBase)}
\* an id no entry carries: the entry was deleted while its form was open
StaleKbId == KbId(0)

Schedule(c) ==
  /\ steps < MaxSteps
  /\ Len(pending) < MaxPending
  /\ pending' = Append(pending, c)
  /\ steps' = steps + 1
  /\ UNCHANGED <<db, session, now, call, result, pre, view>>

CallAddKnowledgeEntry(formData) ==
  Schedule([op |-> "addKnowledgeEntry", entry |-> NewKbEntry(formData, now),
            due |-> now + SIMULATED_LATENCY])

CallUpdateKnowledgeEntry(id, formData) ==
  Schedule([op |-> "updateKnowledgeEntry",
            entry |-> Spread(NewKbEntry(formData, now), [id |-> id]),
            due |-> now + SIMULATED_LATENCY])

CallDeleteKnowledgeEntry(id) ==
  Schedule([op |-> "deleteKnowledgeEntry", id |-> id,
            due |-> now + SIMULATED_LATENCY])

\* the clock advances by a millisecond, or to the next timer's due time
Tick ==
  /\ \/ /\ (now - StartTime) % SIMULATED_LATENCY < MaxDrift
        /\ now' = now + 1
     \/ /\ \E i \in 1..Len(pending) : pending[i].due > now
        /\ now' = (CHOOSE t \in {pending[i].due : i \in 1..Len(pending)} :
                     /\ t > now
                     /\ \A i \in 1..Len(pending) :
                           pending[i].due > now => t <= pending[i].due)
  /\ UNCHANGED <<db, session, pending, call, result, pre, steps, view>>

\* the timer that fires next
NextTimer(i) ==
  /\ i \in 1..Len(pending)
  /\ pending[i].due <= now
  /\ \A j \in 1..Len(pending) :
        \/ j = i
        \/ pending[j].due > pending[i].due
        \/ (pending[j].due = pending[i].due /\ j > i)

CompleteAddKnowledgeEntry(i) ==
  /\ NextTimer(i)
  /\ pending[i].op = "addKnowledgeEntry"
  /\ LET r == addKnowledgeEntry(getDB, pending[i].entry, now)
     IN  Apply([op |-> "addKnowledgeEntry", entry |-> pending[i].entry],
               r.db, session, r.ret)
  /\ pending' = RemoveAt(pending, i)
  /\ UNCHANGED <<now, steps, view>>

CompleteUpdateKnowledgeEntry(i) ==
  /\ NextTimer(i)
  /\ pending[i].op = "updateKnowledgeEntry"
  /\ LET r == updateKnowledgeEntry(getDB, pending[i].entry)
         c == [op |-> "updateKnowledgeEntry", entry |-> pending[i].entry]
     IN  IF r.found
         THEN /\ Apply(c, r.db, session, r.ret)
              /\ pending' = RemoveAt(pending, i)
         ELSE /\ Apply(c, r.db, session, [awaiting |-> "addKnowledgeEntry"])
              /\ pending' = Append(RemoveAt(pending, i),
                                   [op |-> "addKnowledgeEntry",
                                    entry |-> pending[i].entry,
                                    due |-> now + SIMULATED_LATENCY])
  /\ UNCHANGED <<now, steps, view>>

CompleteDeleteKnowledgeEntry(i) ==
  /\ NextTimer(i)
  /\ pending[i].op = "deleteKnowledgeEntry"
  /\ LET r == deleteKnowledgeEntry(getDB, pending[i].id)
     IN  Apply([op |-> "deleteKnowledgeEntry", id |-> pending[i].id],
               r.db, session, r.ret)
  /\ pending' = RemoveAt(pending, i)
  /\ UNCHANGED <<now, steps, view>>

InitKb ==
  /\ db = defaultDb
  /\ session = <<defaultUsers[1]>>
  /\ now = StartTime
  /\ pending = <<>>
  /\ call = [op |-> "none"]
  /\ result = [success |-> TRUE]
  /\ pre = defaultDb
  /\ steps = 0
  /\ view = NoView

NextKb ==
  \/ \E f \in KbFormData : CallAddKnowledgeEntry(f)
  \/ \E id \in StoredKbIds \cup {StaleKbId} : \E f \in KbFormData :
        CallUpdateKnowledgeEntry(id, f)
  \/ \E id \in StoredKbIds \cup {StaleKbId} : CallDeleteKnowledgeEntry(id)
  \/ Tick
  \/ \E i \in 1..Len(pending) : CompleteAddKnowledgeEntry(i)
  \/ \E i \in 1..Len(pending) : CompleteUpdateKnowledgeEntry(i)
  \/ \E i \in 1..Len(pending) : CompleteDeleteKnowledgeEntry(i)

SpecKb == InitKb /\ [][NextKb]_vars

----------------------------------------------------------------------------
(* Properties of the knowledge base (SpecKb).                               *)

\* the top-level keys of the persisted document other than key are as the
\* call found them
OnlyKeyChanged(key) ==
  /\ DOMAIN db = DOMAIN pre
  /\ \A k \in DOMAIN pre : k # key => db[k] = pre[k]

\* C5: deleteKnowledgeEntry(id) removes exactly one entry, the one whose id
\* is id, keeps the other entries in their order and changes nothing else in
\* the document; when no entry has that id the knowledge base is unchanged.
C5_DeleteRemovesExactlyOne ==
  call.op = "deleteKnowledgeEntry" =>
    LET kb == pre.knowledgeBase
        hit == FindIndex(kb, LAMBDA e : e.id = call.id)
    IN  /\ OnlyKeyChanged("knowledgeBase")
        /\ IF hit = 0
           THEN db.knowledgeBase = kb
           ELSE db.knowledgeBase = RemoveAt(kb, hit)

\* C6: no two knowledge entries in the store share an id.
C6_KbIdsUnique ==
  \A i, j \in 1..Len(db.knowledgeBase) :
     i # j => db.knowledgeBase[i].id # db.knowledgeBase[j].id

----------------------------------------------------------------------------
(* apiService.ts: configuration records, backup and restore.                *)

updateModelConfig(d, config) ==
  [db |-> saveDB([d EXCEPT !.modelConfig = config]), ret |-> [success |-> TRUE]]

updateSmtpConfigOverwriting(d, config) ==
  [db |-> saveDB([d EXCEPT !.smtpConfig = config]), ret |-> [success |-> TRUE]]

updateSmtpConfig(d, config) ==
  LET kept == IF Get(config, "password") = ""
              THEN Spread(config, [password |-> Get(d.smtpConfig, "password")])
              ELSE config
  IN  [db |-> saveDB([d EXCEPT !.smtpConfig = kept]), ret |-> [success |-> TRUE]]

updateBackupSchedule(d, schedule) ==
  [db |-> saveDB([d EXCEPT !.backupSchedule = schedule]), ret |-> [success |-> TRUE]]

connectGoogleDrive(d) ==
  LET config == [connected |-> TRUE, email |-> "example-user@gmail.com"]
  IN  [db |-> saveDB([d EXCEPT !.googleDriveConfig = config]),
       ret |-> [success |-> TRUE, config |-> config]]

disconnectGoogleDrive(d) ==
  LET config == [connected |-> FALSE, email |-> "null"]
  IN  [db |-> saveDB([d EXCEPT !.googleDriveConfig = config,
                               !.backupSchedule.enabled = FALSE]),
       ret |-> [success |-> TRUE, config |-> config]]

getBackupData(d, type) ==
  IF type = "full" THEN d
  ELSE IF type = "database" THEN [users |-> d.users, chatLogs |-> d.chatLogs]
  ELSE [k \in {type} |-> d[k]]

\* a restore that merges the lists of the backup into the stored ones
restoreBackupDataMergingLists(d, data) ==
  [db |-> saveDB([k \in (DOMAIN d) \cup (DOMAIN data) |->
                    IF k \notin DOMAIN data THEN d[k]
                    ELSE IF k \in DOMAIN d /\ k \in {"users", "knowledgeBase", "chatLogs"}
                         THEN d[k] \o data[k]
                         ELSE data[k]]),
   ret |-> [success |-> TRUE]]

\* a restore that accepts only user lists with unique usernames
restoreBackupDataValidating(d, data) ==
  IF "users" \in DOMAIN data /\
     \E i, j \in 1..Len(data.users) :
        i # j /\ SameNameIgnoringCase(data.users[i].username, data.users[j].username)
  THEN [db |-> d, ret |-> [success |-> FALSE]]
  ELSE [db |-> saveDB(Spread(d, data)), ret |-> [success |-> TRUE]]

restoreBackupData(d, data) ==
  [db |-> saveDB(Spread(d, data)), ret |-> [success |-> TRUE]]

\* BackupAndRestore: the export is written to a file as JSON.stringify(data)
\* and a restore reads a file back with JSON.parse
BackupFile(data) ==
  [k \in DOMAIN data |->
     IF k = "smtpConfig" THEN JsonRoundTrip(data[k], "password")
     ELSE IF k = "users"
          THEN [i \in 1..Len(data[k]) |-> JsonRoundTrip(data[k][i], "password")]
          ELSE data[k]]

----------------------------------------------------------------------------
(* Inputs of the configuration and backup operations.                       *)

\* SmtpSettings: the form holds the fetched configuration with password ''
\* (fetchConfig) and whatever the administrator typed over it
SmtpForm(host, password) ==
  [host |-> host, port |-> 465, secure |-> TRUE, username |-> "mailer",
   password |-> password, emailTemplates |-> defaultDb.smtpConfig.emailTemplates]

SmtpInputs ==
  {SmtpForm(h, p) : h \in {"smtp.a.io", "smtp.b.io"}, p \in {"", "s3cret"}}

ModelConfigInputs ==
  {[provider |-> "openai", model |-> "gpt-4o", temperature |-> "0.2",
    topP |-> "1", topK |-> 1, customInstruction |-> "Be brief."]}

ScheduleInputs ==
  {[enabled |-> TRUE, frequency |-> "weekly", dayOfWeek |-> 0, time |-> "03:30"]}

BackupTypes == {"full", "database", "panelConfig", "modelConfig", "knowledgeBase"}

\* contents of restore files that no export of this store produced: a partial
\* document, a user list with the same username twice, a list of knowledge
\* entries without ids, and a key the document does not have
RestoreInputs ==
  {[modelConfig |-> [provider |-> "openrouter"]],
   [users |-> <<defaultUsers[1], defaultUsers[1]>>],
   [knowledgeBase |-> <<[tag |-> "no id"]>>, chatLogs |-> <<>>],
   [schemaVersion |-> "2"]}

----------------------------------------------------------------------------
(* The configuration and backup operations as steps.                        *)

UpdateSmtpConfig(config) ==
  /\ steps < MaxSteps
  /\ LET r == updateSmtpConfig(getDB, config)
     IN  Apply([op |-> "updateSmtpConfig", config |-> config], r.db, session, r.ret)
  /\ steps' = steps + 1
  /\ UNCHANGED <<now, pending, view>>

UpdateModelConfig(config) ==
  /\ steps < MaxSteps
  /\ LET r == updateModelConfig(getDB, config)
     IN  Apply([op |-> "updateModelConfig", config |-> config], r.db, session, r.ret)
  /\ steps' = steps + 1
  /\ UNCHANGED <<now, pending, view>>

UpdateBackupSchedule(schedule) ==
  /\ steps < MaxSteps
  /\ LET r == updateBackupSchedule(getDB, schedule)
     IN  Apply([op |-> "updateBackupSchedule", schedule |-> schedule],
               r.db, session, r.ret)
  /\ steps' = steps + 1
  /\ UNCHANGED <<now, pending, view>>

ConnectGoogleDrive ==
  /\ steps < MaxSteps
  /\ LET r == connectGoogleDrive(getDB)
     IN  Apply([op |-> "connectGoogleDrive"], r.db, session, r.ret)
  /\ steps' = steps + 1
  /\ UNCHANGED <<now, pending, view>>

DisconnectGoogleDrive ==
  /\ steps < MaxSteps
  /\ LET r == disconnectGoogleDrive(getDB)
     IN  Apply([op |-> "disconnectGoogleDrive"], r.db, session, r.ret)
  /\ steps' = steps + 1
  /\ UNCHANGED <<now, pending, view>>

GetBackupData(type) ==
  /\ steps < MaxSteps
  /\ Apply([op |-> "getBackupData", type |-> type], db, session,
           getBackupData(getDB, type))
  /\ steps' = steps + 1
  /\ UNCHANGED <<now, pending, view>>

\* a restore file with contents of its own
RestoreBackupData(data) ==
  /\ steps < MaxSteps
  /\ LET r == restoreBackupData(getDB, data)
     IN  Apply([op |-> "restoreBackupData", data |-> data, exported |-> "no"],
               r.db, session, r.ret)
  /\ steps' = steps + 1
  /\ UNCHANGED <<now, pending, view>>

\* the data the preceding call exported is restored, nothing having run in
\* between
RestoreExported ==
  /\ steps < MaxSteps
  /\ call.op = "getBackupData"
  /\ LET data == BackupFile(result)
         r == restoreBackupData(getDB, data)
     IN  Apply([op |-> "restoreBackupData", data |-> data, exported |-> call.type],
               r.db, session, r.ret)
  /\ steps' = steps + 1
  /\ UNCHANGED <<now, pending, view>>

InitBackup ==
  /\ db = defaultDb
  /\ session = <<defaultUsers[1]>>
  /\ now = StartTime
  /\ pending = <<>>
  /\ call = [op |-> "none"]
  /\ result = [success |-> TRUE]
  /\ pre = defaultDb
  /\ steps = 0
  /\ view = NoView

NextBackup ==
  \/ \E c \in SmtpInputs : UpdateSmtpConfig(c)
  \/ \E c \in ModelConfigInputs : UpdateModelConfig(c)
  \/ \E s \in ScheduleInputs : UpdateBackupSchedule(s)
  \/ ConnectGoogleDrive
  \/ DisconnectGoogleDrive
  \/ \E t \in BackupTypes : GetBackupData(t)
  \/ \E data \in RestoreInputs : RestoreBackupData(data)
  \/ RestoreExported

SpecBackup == InitBackup /\ [][NextBackup]_vars

----------------------------------------------------------------------------
(* Properties of backup, restore and the SMTP record (SpecBackup).          *)

\* C7: getBackupData('full') followed by restoreBackupData of the returned
\* data, nothing having changed the document in between, leaves the
\* document equal to what it was before the export.
C7_FullExportRestoreRoundTrip ==
  (call.op = "restoreBackupData" /\ call.exported = "full") => db = pre

\* C7 witness: a full export of a document that differs from the default one
\* has been restored.
C7_Witness ==
  /\ call.op = "restoreBackupData"
  /\ call.exported = "full"
  /\ call.data = pre
  /\ pre # defaultDb

\* C8: restoreBackupData(data) replaces each top-level key of the document
\* that data has by the value data gives it, leaves the keys data lacks as
\* they were, and reports success whatever the values are.
C8_RestoreShallowMerge ==
  call.op = "restoreBackupData" =>
    /\ result.success = TRUE
    /\ \A k \in DOMAIN pre :
          /\ k \in DOMAIN db
          /\ db[k] = IF k \in DOMAIN call.data THEN call.data[k] ELSE pre[k]

\* C8 witness: a user list holding the same username twice has been restored
\* over a document whose model configuration had been edited, and only the
\* user list changed.
C8_Witness ==
  /\ call.op = "restoreBackupData"
  /\ DOMAIN call.data = {"users"}
  /\ ~UsernamesUniqueIgnoringCase(db.users)
  /\ db.modelConfig # defaultDb.modelConfig
  /\ result.success = TRUE

\* C9: updateSmtpConfig with password '' stores the supplied configuration
\* with the previously stored password kept: every other SMTP field takes
\* the supplied value and nothing else in the document changes.
C9_SmtpEmptyPasswordKeepsStored ==
  (call.op = "updateSmtpConfig" /\ call.config.password = "") =>
    /\ Get(db.smtpConfig, "password") = Get(pre.smtpConfig, "password")
    /\ (DOMAIN db.smtpConfig) \ {"password"} = (DOMAIN call.config) \ {"password"}
    /\ \A k \in (DOMAIN call.config) \ {"password"} : db.smtpConfig[k] = call.config[k]
    /\ OnlyKeyChanged("smtpConfig")
    /\ result.success = TRUE

\* C9 witness: a configuration with password '' and a new host has been
\* saved over one that held a password.
C9_Witness ==
  /\ call.op = "updateSmtpConfig"
  /\ call.config.password = ""
  /\ Get(pre.smtpConfig, "password") = "s3cret"
  /\ db.smtpConfig.host # pre.smtpConfig.host

----------------------------------------------------------------------------
(* apiService.ts: the paginated lists getUsers and getChatLogs.  args is    *)
(* the call's argument object; a key it lacks takes its default.            *)

Param(args, key, default) == IF key \in DOMAIN args THEN args[key] ELSE default

\* the user list after the role and search filters of getUsers
filteredUsers(d, args) ==
  LET role == Param(args, "role", "")
      search == Param(args, "search", <<>>)
      lowercasedSearch == toLowerCase(search)
      byRole == IF role # "" THEN SelectSeq(d.users, LAMBDA u : u.role = role)
                ELSE d.users
  IN  IF search # <<>>
      THEN SelectSeq(byRole, LAMBDA u :
             \/ includes(toLowerCase(u.username), lowercasedSearch)
             \/ includes(toLowerCase(u.firstName), lowercasedSearch)
             \/ includes(toLowerCase(u.lastName), lowercasedSearch)
             \/ includes(toLowerCase(u.email), lowercasedSearch))
      ELSE byRole

\* the conversations after the 'ghost admin' and search filters of getChatLogs
filteredLogs(d, args) ==
  LET search == Param(args, "search", <<>>)
      lowercasedSearch == toLowerCase(search)
      visible == SelectSeq(d.chatLogs, LAMBDA log : log.user.username # <<"a", "d", "m", "i", "n">>)
  IN  IF search # <<>>
      THEN SelectSeq(visible, LAMBDA log :
             \/ includes(toLowerCase(log.user.username), lowercasedSearch)
             \/ includes(toLowerCase(log.user.firstName), lowercasedSearch)
             \/ includes(toLowerCase(log.user.lastName), lowercasedSearch)
             \/ \E m \in 1..Len(log.messages) :
                   includes(toLowerCase(log.messages[m].text), lowercasedSearch))
      ELSE visible

ConversationSummary(log) ==
  [id |-> log.id,
   user |-> [username |-> log.user.username, firstName |-> log.user.firstName,
             lastName |-> log.user.lastName],
   firstMessage |-> IF Len(log.messages) > 0 THEN log.messages[1].text ELSE <<>>,
   startTime |-> log.startTime,
   messageCount |-> Len(log.messages)]

\* a page that starts one page too far: slice(page * limit, (page + 1) * limit)
PaginateFromPageZero(xs, page, limit) ==
  [items |-> Slice(xs, page * limit, (page + 1) * limit),
   totalPages |-> CeilDiv(Len(xs), limit)]

\* totalPages = Math.ceil(length / limit); slice((page - 1) * limit, page * limit)
Paginate(xs, page, limit) ==
  [items |-> Slice(xs, (page - 1) * limit, page * limit),
   totalPages |-> CeilDiv(Len(xs), limit)]

getUsers(d, args) ==
  LET p == Paginate(filteredUsers(d, args), Param(args, "page", 1),
                    Param(args, "limit", 10))
  IN  [users |-> p.items, totalPages |-> p.totalPages]

getChatLogs(d, args) ==
  LET logs == filteredLogs(d, args)
      summaries == Reverse([i \in 1..Len(logs) |-> ConversationSummary(logs[i])])
      p == Paginate(summaries, Param(args, "page", 1), Param(args, "limit", 10))
  IN  [logs |-> p.items, totalPages |-> p.totalPages]

----------------------------------------------------------------------------
(* Inputs of the paginated lists: stores with 0..MaxRecords users and       *)
(* conversations, and the argument objects of the calls.                    *)

DigitChars == <<"0", "1", "2", "3", "4", "5", "6", "7", "8", "9">>

\* `${i}`
RECURSIVE Decimal(_)
Decimal(i) ==
  IF i < 10 THEN <<DigitChars[i + 1]>>
  ELSE Decimal(i \div 10) \o <<DigitChars[(i % 10) + 1]>>

\* the i-th stored user: u1, u2, ... with the roles in rotation
ListedUser(i) ==
  Spread(FormUser(<<"u">> \o Decimal(i), "secret", USER_ROLES[(i % Len(USER_ROLES)) + 1]),
         [ip |-> "N/A", device |-> "N/A", os |-> "N/A"])

\* the i-th stored conversation; every fourth one is the admin's
ListedConversation(i) ==
  [id |-> <<"convo", i>>,
   user |-> IF i % 4 = 0 THEN defaultUsers[1] ELSE ListedUser(i),
   startTime |-> StartTime + i,
   messages |-> IF i % 3 = 0 THEN <<>>
                ELSE <<[id |-> <<"msg", i>>, sender |-> "user",
                        text |-> <<"H", "i", " ">> \o Decimal(i), timestamp |-> StartTime + i]>>]

ListedDb(n, m) ==
  [defaultDb EXCEPT !.users = [i \in 1..n |-> ListedUser(i)],
                    !.chatLogs = [i \in 1..m |-> ListedConversation(i)]]

PageArgs ==
  {[page |-> p, limit |-> l] : p \in 1..MaxPage, l \in 1..MaxLimit}

UserListArgs ==
  PageArgs
  \cup {Spread(a, [role |-> "client"]) : a \in PageArgs}
  \cup {Spread(a, [search |-> <<"U", "1">>]) : a \in PageArgs}
  \cup {[search |-> <<"u", "s", "e", "r">>], [page |-> 2], [limit |-> 3]}
  \cup {[search |-> <<"n", "e", "w", " ", "u", "s", "e", "r">>], [search |-> <<"U", "1", " ", "x", ".", "i", "o">>, limit |-> 4]}

ChatLogArgs ==
  PageArgs
  \cup {Spread(a, [search |-> <<"h", "i", " ", "1">>]) : a \in PageArgs}
  \cup {[search |-> <<"u", "2">>], [page |-> 2], [limit |-> 3]}
  \cup {[search |-> <<"u", "1", " ", "h", "i">>], [search |-> <<"N", "e", "w", " ", " ", "1">>, limit |-> 4]}

----------------------------------------------------------------------------
(* The paginated lists as steps.  Both calls read the store and change     *)
(* nothing, so a behaviour makes one call on the store it starts with.      *)

GetUsers(args) ==
  /\ steps = 0
  /\ Apply([op |-> "getUsers", args |-> args], db, session, getUsers(getDB, args))
  /\ steps' = steps + 1
  /\ UNCHANGED <<now, pending, view>>

GetChatLogs(args) ==
  /\ steps = 0
  /\ Apply([op |-> "getChatLogs", args |-> args], db, session,
           getChatLogs(getDB, args))
  /\ steps' = steps + 1
  /\ UNCHANGED <<now, pending, view>>

InitLists ==
  /\ \E n \in 0..MaxRecords : db = ListedDb(n, n)
  /\ session = NoSession
  /\ now = StartTime
  /\ pending = <<>>
  /\ call = [op |-> "none"]
  /\ result = [success |-> TRUE]
  /\ pre = db
  /\ steps = 0
  /\ view = NoView

NextLists ==
  \/ \E a \in UserListArgs : GetUsers(a)
  \/ \E a \in ChatLogArgs : GetChatLogs(a)

SpecLists == InitLists /\ [][NextLists]_vars

----------------------------------------------------------------------------
(* Properties of pagination (SpecLists).                                    *)

Min(a, b) == IF a < b THEN a ELSE b

\* the elements of xs at the 0-based positions (p-1)*L .. min(p*L, n)-1
PageOf(xs, p, L) ==
  LET first == (p - 1) * L
      last == Min(p * L, Len(xs)) - 1
  IN  [i \in 1..(last - first + 1) |-> xs[first + i]]

\* ceil(n / L): the least k with k * L >= n
Ceiling(n, L) == CHOOSE k \in 0..n : k * L >= n /\ \A j \in 0..(k - 1) : j * L < n

RECURSIVE ConcatPages(_, _)
\* the pages 1..k, one after the other, of the list that Page(p) pages
ConcatPages(Page(_), k) ==
  IF k = 0 THEN <<>> ELSE ConcatPages(Page, k - 1) \o Page(k)

\* xs holds every element of F exactly as often as F does, and nothing else
HoldsEachOnce(xs, F) ==
  /\ Len(xs) = Len(F)
  /\ \A i \in 1..Len(F) :
        Cardinality({j \in 1..Len(xs) : xs[j] = F[i]})
          = Cardinality({j \in 1..Len(F) : F[j] = F[i]})

Ids(xs) == [i \in 1..Len(xs) |-> xs[i].id]

\* what the claim says of one call of getUsers, given the filtered list F
UsersPageAsClaimed(F) ==
  LET p == Param(call.args, "page", 1)
      L == Param(call.args, "limit", 10)
  IN  /\ result.users = PageOf(F, p, L)
      /\ result.totalPages = Ceiling(Len(F), L)
      /\ (Len(F) = 15 /\ L = 10 /\ p = 2) => Len(result.users) = 5
      /\ p > result.totalPages => result.users = <<>>
      /\ HoldsEachOnce(
           ConcatPages(LAMBDA q : getUsers(pre, Spread(call.args, [page |-> q])).users,
                       result.totalPages), F)

\* what the claim says of one call of getChatLogs, given the list F of the
\* conversations in the order the claim takes them in
LogsPageAsClaimed(F) ==
  LET p == Param(call.args, "page", 1)
      L == Param(call.args, "limit", 10)
  IN  /\ Ids(result.logs) = Ids(PageOf(F, p, L))
      /\ result.totalPages = Ceiling(Len(F), L)
      /\ (Len(F) = 15 /\ L = 10 /\ p = 2) => Len(result.logs) = 5
      /\ p > result.totalPages => result.logs = <<>>
      /\ HoldsEachOnce(
           ConcatPages(LAMBDA q : Ids(getChatLogs(pre, Spread(call.args, [page |-> q])).logs),
                       result.totalPages), Ids(F))

\* C10 as stated: both lists return the records at positions (p-1)*L up to
\* min(p*L, n)-1 of the filtered sequence.
C10_PagesOfFilteredSequence ==
  /\ call.op = "getUsers" => UsersPageAsClaimed(filteredUsers(pre, call.args))
  /\ call.op = "getChatLogs" => LogsPageAsClaimed(filteredLogs(pre, call.args))

\* C10 as amended: getUsers returns the records at positions (p-1)*L up to
\* min(p*L, n)-1 of the filtered sequence; getChatLogs returns the summaries
\* of the conversations at those positions of the filtered sequence taken
\* most recent first, that is in reverse store order; for both,
\* totalPages = ceil(n/L), page 2 with limit 10 over 15 filtered records has
\* 5 records, a page beyond totalPages is empty and pages 1..totalPages
\* together hold every filtered record exactly once.
C10_PagesMostRecentFirstForLogs ==
  /\ call.op = "getUsers" => UsersPageAsClaimed(filteredUsers(pre, call.args))
  /\ call.op = "getChatLogs" =>
        /\ LogsPageAsClaimed(Reverse(filteredLogs(pre, call.args)))
        /\ \A i \in 1..Len(result.logs) :
              \E j \in 1..Len(pre.chatLogs) :
                 result.logs[i] = ConversationSummary(pre.chatLogs[j])

\* C10 witness: page 2 with limit 10 of 15 filtered users has been returned
\* with 5 users.
C10_Witness ==
  /\ call.op = "getUsers"
  /\ Param(call.args, "page", 1) = 2
  /\ Param(call.args, "limit", 10) = 10
  /\ Len(filteredUsers(pre, call.args)) = 15
  /\ Len(result.users) = 5

----------------------------------------------------------------------------
(* Properties of search (SpecLists).                                        *)

Whitespace == {" ", "\t", "\n"}

RECURSIVE Tokens(_)
\* the maximal whitespace-free pieces of s, in order
Tokens(s) ==
  IF s = <<>> THEN <<>>
  ELSE IF s[1] \in Whitespace THEN Tokens(Tail(s))
  ELSE LET wordEnd == IF \E i \in 1..Len(s) : s[i] \in Whitespace
                      THEN (CHOOSE i \in 1..Len(s) :
                              /\ s[i] \in Whitespace
                              /\ \A j \in 1..(i - 1) : s[j] \notin Whitespace) - 1
                      ELSE Len(s)
       IN  <<SubSeq(s, 1, wordEnd)>> \o Tokens(SubSeq(s, wordEnd + 1, Len(s)))

\* every token of the query is, ignoring case, a substring of some field
EveryTokenInSomeField(fields, search) ==
  LET tokens == Tokens(search)
  IN  \A t \in 1..Len(tokens) :
         \E f \in 1..Len(fields) :
            includes(toLowerCase(fields[f]), toLowerCase(tokens[t]))

UserSearchFields(u) == <<u.username, u.firstName, u.lastName, u.email>>

LogSearchFields(log) ==
  <<log.user.username, log.user.firstName, log.user.lastName>>
    \o [m \in 1..Len(log.messages) |-> log.messages[m].text]

\* the ids on the pages 1..n+1 of the list that Page(q) pages
IdsOnAllPages(Page(_), n) == UNION {{Page(q)[i].id : i \in 1..Len(Page(q))} : q \in 1..(n + 1)}

\* C11: in getUsers and getChatLogs a record that passes the other filters is
\* listed exactly when every whitespace-separated token of the search query
\* is, ignoring case, a substring of at least one searched field.
C11_SearchTokensAnded ==
  /\ (call.op = "getUsers" /\ Param(call.args, "search", <<>>) # <<>>) =>
        LET role == Param(call.args, "role", "")
            matching == {i \in 1..Len(pre.users) :
                           /\ role # "" => pre.users[i].role = role
                           /\ EveryTokenInSomeField(UserSearchFields(pre.users[i]),
                                                    call.args.search)}
        IN  IdsOnAllPages(LAMBDA q : [i \in 1..Len(getUsers(pre, Spread(call.args, [page |-> q])).users) |->
                                        [id |-> getUsers(pre, Spread(call.args, [page |-> q])).users[i].username]],
                          Len(pre.users))
              = {pre.users[i].username : i \in matching}
  /\ (call.op = "getChatLogs" /\ Param(call.args, "search", <<>>) # <<>>) =>
        LET matching == {i \in 1..Len(pre.chatLogs) :
                           /\ pre.chatLogs[i].user.username # <<"a", "d", "m", "i", "n">>
                           /\ EveryTokenInSomeField(LogSearchFields(pre.chatLogs[i]),
                                                    call.args.search)}
        IN  IdsOnAllPages(LAMBDA q : getChatLogs(pre, Spread(call.args, [page |-> q])).logs,
                          Len(pre.chatLogs))
              = {pre.chatLogs[i].id : i \in matching}

----------------------------------------------------------------------------
(* Two browser tabs on one persisted document.  Each tab runs its own copy  *)
(* of the application; localStorage is shared, and nothing holds it between *)
(* a tab's getItem (getDB) and its setItem (saveDB).  A tab's API call is   *)
(* therefore two steps: it reads the document, and later it writes back the *)
(* document it read with its own change applied.                            *)

updatePermissions(d, permissions) ==
  [db |-> saveDB([d EXCEPT !.permissions = permissions]), ret |-> [success |-> TRUE]]

Tabs == {1, 2}

\* the calls a tab may issue
TabCalls ==
  {[op |-> "addUser", arg |-> FormUser(<<"b", "o", "b">>, "secret", "supervisor")],
   [op |-> "deleteUser", arg |-> <<"c", "l", "i", "e", "n", "t">>],
   [op |-> "updateModelConfig",
    arg |-> [defaultDb.modelConfig EXCEPT !.customInstruction = "Be brief."]],
   [op |-> "updatePermissions",
    arg |-> [DEFAULT_PERMISSIONS EXCEPT !.support.canManageUsers = TRUE]],
   [op |-> "updateSmtpConfig", arg |-> SmtpForm("smtp.a.io", "s3cret")]}

\* the block of call c run on the document d that the tab read
RunOn(c, d) ==
  IF c.op = "addUser" THEN addUser(d, c.arg)
  ELSE IF c.op = "deleteUser" THEN deleteUser(d, c.arg)
  ELSE IF c.op = "updateModelConfig" THEN updateModelConfig(d, c.arg)
  ELSE IF c.op = "updatePermissions" THEN updatePermissions(d, c.arg)
  ELSE updateSmtpConfig(d, c.arg)

\* const db = getDB() in tab t
TabRead(t, c) ==
  /\ view.tabs[t].pc = "idle"
  /\ view' = [view EXCEPT !.tabs[t] = [pc |-> "read", call |-> c, local |-> getDB],
                          !.order = Append(@, <<"read", t>>)]
  /\ UNCHANGED <<db, session, now, pending, call, result, pre, steps>>

\* a write-back that is refused when the document changed since it was read
TabWriteIfFresh(t) ==
  /\ view.tabs[t].pc = "read"
  /\ LET tab == view.tabs[t]
         r == IF db = tab.local THEN RunOn(tab.call, tab.local)
              ELSE [db |-> db, ret |-> [success |-> FALSE]]
     IN  /\ Apply(tab.call, r.db, session, r.ret)
         /\ view' = [view EXCEPT !.tabs[t] = [pc |-> "done", call |-> tab.call,
                                              local |-> tab.local, ret |-> r.ret],
                                 !.order = Append(@, <<"write", t>>)]
  /\ steps' = steps + 1
  /\ UNCHANGED <<now, pending>>

\* the rest of the block in tab t: the change, saveDB(db), the return
TabWrite(t) ==
  /\ view.tabs[t].pc = "read"
  /\ LET tab == view.tabs[t]
         r == RunOn(tab.call, tab.local)
     IN  /\ Apply(tab.call, r.db, session, r.ret)
         /\ view' = [view EXCEPT !.tabs[t] = [pc |-> "done", call |-> tab.call,
                                              local |-> tab.local, ret |-> r.ret],
                                 !.order = Append(@, <<"write", t>>)]
  /\ steps' = steps + 1
  /\ UNCHANGED <<now, pending>>

InitTabs ==
  /\ db = defaultDb
  /\ session = NoSession
  /\ now = StartTime
  /\ pending = <<>>
  /\ call = [op |-> "none"]
  /\ result = [success |-> TRUE]
  /\ pre = db
  /\ steps = 0
  /\ view = [screen |-> "tabs", tabs |-> [t \in Tabs |-> [pc |-> "idle"]], order |-> <<>>]

NextTabs ==
  \/ \E t \in Tabs, c \in TabCalls : TabRead(t, c)
  \/ \E t \in Tabs : TabWrite(t)

SpecTabs == InitTabs /\ [][NextTabs]_vars

----------------------------------------------------------------------------
(* Properties of two writers (SpecTabs).                                    *)

\* both tabs have written, and both had read before either wrote
BothReadBeforeEitherWrote ==
  /\ \A t \in Tabs : view.tabs[t].pc = "done"
  /\ view.order[1][1] = "read" /\ view.order[2][1] = "read"

LaterWriter == view.order[4][2]
EarlierWriter == view.order[3][2]

\* C12: when both tabs read the document before either writes it back, the
\* document after both writes is the one they read with only the later
\* writer's change: every part the later writer did not change is as it was
\* read, whatever the earlier writer wrote there; both calls report success.
C12_LastWriteWins ==
  BothReadBeforeEitherWrote =>
    LET later == view.tabs[LaterWriter]
        earlier == view.tabs[EarlierWriter]
        base == later.local
        laterAlone == RunOn(later.call, base).db
        earlierAlone == RunOn(earlier.call, base).db
    IN  /\ earlier.local = base
        /\ db = laterAlone
        /\ \A k \in DOMAIN db :
              (laterAlone[k] = base[k] /\ earlierAlone[k] # base[k]) =>
                 (db[k] = base[k] /\ db[k] # earlierAlone[k])
        /\ earlier.ret.success /\ later.ret.success

\* C12 witness: tab 1 added user bob and tab 2 saved the model configuration,
\* both from the same document; both reported success, and bob is not stored.
C12_Witness ==
  /\ BothReadBeforeEitherWrote
  /\ EarlierWriter = 1 /\ LaterWriter = 2
  /\ view.tabs[1].call.op = "addUser" /\ view.tabs[1].ret.success
  /\ view.tabs[2].call.op = "updateModelConfig" /\ view.tabs[2].ret.success
  /\ db.modelConfig.customInstruction = "Be brief."
  /\ \A i \in 1..Len(db.users) : db.users[i].username # <<"b", "o", "b">>

----------------------------------------------------------------------------
(* API calls on a store whose item may be missing, empty or unparsable.     *)

getPermissions(d) == d.permissions

\* the stored items a call may find
StoredItems ==
  {NoItem, EmptyItem, Unparsable("{\"users\":["), Unparsable("undefined"),
   defaultDb, [defaultDb EXCEPT !.knowledgeBase = <<>>, !.chatLogs = <<>>]}

StoreCalls ==
  {[op |-> "getUsers", args |-> [page |-> 1, limit |-> 10]],
   [op |-> "getPermissions"],
   [op |-> "login", username |-> <<"a", "d", "m", "i", "n">>, password |-> "password"],
   [op |-> "login", username |-> <<"a", "d", "m", "i", "n">>, password |-> "wrong"],
   [op |-> "addUser", userData |-> FormUser(<<"b", "o", "b">>, "secret", "supervisor")],
   [op |-> "deleteUser", username |-> <<"c", "l", "i", "e", "n", "t">>],
   [op |-> "updateModelConfig",
    config |-> [defaultDb.modelConfig EXCEPT !.customInstruction = "Be brief."]]}

\* the block of call c on the document d that getDB returned
RunApi(c, d, s) ==
  IF c.op = "login" THEN login(d, s, c.username, c.password)
  ELSE IF c.op = "getUsers"
       THEN [db |-> d, session |-> s, ret |-> getUsers(d, c.args)]
  ELSE IF c.op = "getPermissions"
       THEN [db |-> d, session |-> s, ret |-> getPermissions(d)]
  ELSE LET r == IF c.op = "addUser" THEN addUser(d, c.userData)
                ELSE IF c.op = "deleteUser" THEN deleteUser(d, c.username)
                ELSE updateModelConfig(d, c.config)
       IN  [db |-> r.db, session |-> s, ret |-> r.ret]

\* an API call from its getDB to its return; a call that does not save
\* leaves in the store what getDB left there
ApiCall(c) ==
  /\ steps < MaxSteps
  /\ LET a == readDB(db)
     IN  IF "threw" \in DOMAIN a
         THEN Apply(c, a.db, session, [threw |-> a.threw])
         ELSE LET r == RunApi(c, a.ret, session)
              IN  Apply(c, IF r.db = a.ret THEN a.db ELSE r.db, r.session, r.ret)
  /\ steps' = steps + 1
  /\ UNCHANGED <<now, pending, view>>

InitStore ==
  /\ db \in StoredItems
  /\ session = NoSession
  /\ now = StartTime
  /\ pending = <<>>
  /\ call = [op |-> "none"]
  /\ result = [success |-> TRUE]
  /\ pre = db
  /\ steps = 0
  /\ view = NoView

NextStore == \E c \in StoreCalls : ApiCall(c)

SpecStore == InitStore /\ [][NextStore]_vars

----------------------------------------------------------------------------
(* Properties of the store access (SpecStore).                              *)

\* the document is the default database except for the keys in changed
DefaultsExcept(changed) ==
  /\ DOMAIN db = DOMAIN defaultDb
  /\ \A k \in DOMAIN defaultDb \ changed : db[k] = defaultDb[k]

----------------------------------------------------------------------------
(* Properties of the session (SpecUsers).                                   *)

\* C14: a successful login or socialLogin leaves its user in the session; a
\* logout leaves no session; a failed login leaves the session as it was;
\* and no other call signs a user in or out or puts another user in the
\* session, so getCurrentUser returns the logged-in user until logout.
C14_SessionHoldsLoggedInUser ==
  [][ /\ (call'.op \in {"login", "socialLogin"} /\ result'.success) =>
            session' = <<result'.user>>
      /\ call'.op = "logout" => session' = NoSession
      /\ (call'.op = "login" /\ ~result'.success) => session' = session
      /\ call'.op \notin {"login", "socialLogin", "logout"} =>
            \/ session = NoSession /\ session' = NoSession
            \/ /\ session # NoSession /\ session' # NoSession
               /\ session'[1].username = session[1].username ]_vars

\* C14 witness: a login has failed while a user was logged in, and that user
\* is still in the session.
C14_Witness ==
  /\ call.op = "login"
  /\ ~result.success
  /\ session # NoSession

----------------------------------------------------------------------------
(* The role-management view (RoleManagement.tsx) inside the dashboard       *)
(* (AdminDashboard.tsx) that the application shell (App) opens.  view is    *)
(* the component state: app holds the permissions the shell fetched after   *)
(* login, dash the ones the dashboard fetched when it mounted, and          *)
(* permissions / initialPermissions / selectedRole are RoleManagement's.    *)

\* the toggles of the view that the model clicks
ToggledPermissions == {"canManageRoles"}

\* a support user that the admin has added in user management
SupportUser == FormUser(<<"s", "a", "m">>, "password", "support")

\* the users that log in
DashboardUsers == {<<"a", "d", "m", "i", "n">>, <<"m", "a", "n", "a", "g", "e", "r">>, <<"s", "a", "m">>, <<"c", "l", "i", "e", "n", "t">>}

\* a list of roles that leaves no role out
editableRolesUnfiltered == USER_ROLES

\* USER_ROLES.filter(role => !['admin', 'manager'].includes(role))
editableRoles == SelectSeq(USER_ROLES, LAMBDA role : role \notin {"admin", "manager"})

\* LoginPage.handleSubmit with the user's password
LoginPageSubmit(username) ==
  /\ session = NoSession
  /\ view = NoView
  /\ LET r == login(getDB, session, username, "password")
     IN  Apply([op |-> "login", via |-> "form", username |-> username,
                password |-> "password"], r.db, r.session, r.ret)
  /\ UNCHANGED <<now, pending, steps, view>>

\* App.postLoginSetup: the shell fetches the permissions
PostLoginSetup ==
  /\ session # NoSession
  /\ view = NoView
  /\ view' = [screen |-> "app", app |-> getPermissions(getDB)]
  /\ UNCHANGED <<db, session, now, pending, call, result, pre, steps>>

\* App.toggleAdminDashboard: the dashboard is rendered when the shell's
\* permissions give the user's role canViewDashboard; it fetches its own
\* permissions when it mounts
ToggleAdminDashboard ==
  /\ view.screen = "app"
  /\ view.app[session[1].role].canViewDashboard
  /\ view' = [screen |-> "dashboard", app |-> view.app, dash |-> getPermissions(getDB)]
  /\ UNCHANGED <<db, session, now, pending, call, result, pre, steps>>

\* the navigation item 'roles' is listed when userPermissions.canManageRoles;
\* RoleManagement mounts with isLoading
OpenRoleManagement ==
  /\ view.screen = "dashboard"
  /\ view.dash[session[1].role].canManageRoles
  /\ view' = [screen |-> "roles.loading", app |-> view.app, dash |-> view.dash]
  /\ UNCHANGED <<db, session, now, pending, call, result, pre, steps>>

\* RoleManagement.fetchPermissions completes
FetchPermissions ==
  /\ view.screen = "roles.loading"
  /\ LET perms == getPermissions(getDB)
     IN  /\ view' = [screen |-> "roles", app |-> view.app, dash |-> view.dash,
                     permissions |-> perms, initialPermissions |-> perms,
                     fetched |-> perms, selectedRole |-> "supervisor"]
         /\ Apply([op |-> "getPermissions"], db, session, perms)
  /\ UNCHANGED <<now, pending, steps>>

\* a role button of the navigation, one per editable role
SetSelectedRole(role) ==
  /\ view.screen = "roles"
  /\ \E i \in 1..Len(editableRoles) : editableRoles[i] = role
  /\ view' = [view EXCEPT !.selectedRole = role]
  /\ UNCHANGED <<db, session, now, pending, call, result, pre, steps>>

\* a click on the toggle perm of the selected role:
\* handlePermissionChange(selectedRole, perm, e.target.checked)
HandlePermissionChange(perm) ==
  /\ view.screen = "roles"
  /\ LET role == view.selectedRole
         value == ~view.permissions[role][perm]
     IN  view' = [view EXCEPT !.permissions =
                    Spread(@, [r \in {role} |-> Spread(@[role], [p \in {perm} |-> value])])]
  /\ UNCHANGED <<db, session, now, pending, call, result, pre, steps>>

\* the save button is enabled when hasChanges
HandleSaveChanges ==
  /\ steps < MaxSaves
  /\ view.screen = "roles"
  /\ view.permissions # view.initialPermissions
  /\ LET r == updatePermissions(getDB, view.permissions)
     IN  Apply([op |-> "updatePermissions", permissions |-> view.permissions],
               r.db, session, r.ret)
  /\ view' = [view EXCEPT !.initialPermissions = view.permissions]
  /\ steps' = steps + 1
  /\ UNCHANGED <<now, pending>>

\* App.handleLogout: api.logout(), setCurrentUser(null), back to the landing page
HandleLogout ==
  /\ session # NoSession
  /\ view # NoView
  /\ LET r == logout(getDB, session)
     IN  Apply([op |-> "logout"], r.db, r.session, r.ret)
  /\ view' = NoView
  /\ UNCHANGED <<now, pending, steps>>

InitRoles ==
  /\ db = addUser(defaultDb, SupportUser).db
  /\ session = NoSession
  /\ now = StartTime
  /\ pending = <<>>
  /\ call = [op |-> "none"]
  /\ result = [success |-> TRUE]
  /\ pre = db
  /\ steps = 0
  /\ view = NoView

NextRoles ==
  \/ \E u \in DashboardUsers : LoginPageSubmit(u)
  \/ PostLoginSetup
  \/ ToggleAdminDashboard
  \/ OpenRoleManagement
  \/ FetchPermissions
  \/ \E role \in {USER_ROLES[i] : i \in 1..Len(USER_ROLES)} : SetSelectedRole(role)
  \/ \E perm \in ToggledPermissions : HandlePermissionChange(perm)
  \/ HandleSaveChanges
  \/ HandleLogout

SpecRoles == InitRoles /\ [][NextRoles]_vars

----------------------------------------------------------------------------
(* Properties of role management (SpecRoles).                               *)

\* C15: whatever is toggled and saved in the role-management view, the
\* admin and manager records written to the store are the ones the view
\* loaded; only the supervisor, support and client records change.
C15_FixedRolesWrittenAsLoaded ==
  (call.op = "updatePermissions" /\ view.screen = "roles") =>
     /\ db.permissions.admin = view.fetched.admin
     /\ db.permissions.manager = view.fetched.manager
     /\ \A role \in DOMAIN db.permissions :
           db.permissions[role] # pre.permissions[role] =>
              role \in {"supervisor", "support", "client"}

\* C15 witness: a save has written a changed client record.
C15_Witness ==
  /\ call.op = "updatePermissions"
  /\ view.screen = "roles"
  /\ db.permissions.client # pre.permissions.client
  /\ db.permissions.admin = DEFAULT_PERMISSIONS.admin

\* C16: a save made in the role-management view never changes the permission
\* record of the actor's own role or of a role ranked above it.
C16_NoEditOfOwnOrHigherRole ==
  (call.op = "updatePermissions" /\ session # NoSession) =>
     \A role \in DOMAIN db.permissions :
        RoleIndex(role) <= RoleIndex(session[1].role) =>
           db.permissions[role] = pre.permissions[role]

----------------------------------------------------------------------------
(* The answer service (generateAnswer and its three adapters) and the API   *)
(* keys it reads.  The keys are the item localStorage['atlas_api_keys'],    *)
(* kept in view.apiKeys (<<>> while there is no item); view.googleAi is the *)
(* module's cached Google client, <<>> for null or <<key>> for a client     *)
(* built with that key.  What the Google service answers is not decided by  *)
(* the program: outcome is any of the responses the code distinguishes.     *)

\* { ...defaults, ...JSON.parse(keys) }, or the defaults when there is no item
getApiKeys(item) ==
  LET defaults == [google |-> "", openai |-> "", openrouter |-> ""]
  IN  IF item # <<>> THEN Spread(defaults, item[1]) ELSE defaults

\* the item that setApiKeys(keys) writes
setApiKeys(item, keys) == <<Spread(getApiKeys(item), keys)>>

GeminiServiceError(message, category) ==
  [threw |-> "GeminiServiceError", message |-> message, category |-> category]

GoogleOutcomes == {"text", "blocked", "empty", "invalidKey", "error"}

\* googleAi after the call, the request sent, and what the call returns or throws
generateWithGoogle(question, knowledgeBase, config, aiName, apiKey, googleAi, outcome) ==
  IF apiKey = ""
  THEN [googleAi |-> googleAi, request |-> <<>>,
        ret |-> GeminiServiceError("Google API key is not configured.", "API_KEY_MISSING")]
  ELSE LET client == IF googleAi = <<>> THEN <<apiKey>> ELSE googleAi
           request == <<[to |-> "google", key |-> client[1], model |-> config.model,
                         contents |-> question]>>
       IN  IF outcome = "text"
           THEN [googleAi |-> client, request |-> request,
                 ret |-> [text |-> <<"response.text", question>>]]
           ELSE IF outcome = "blocked"
           THEN [googleAi |-> client, request |-> request,
                 ret |-> GeminiServiceError("Content was blocked. Reason: SAFETY",
                                            "CONTENT_BLOCKED")]
           ELSE IF outcome = "empty"
           THEN [googleAi |-> client, request |-> request,
                 ret |-> GeminiServiceError("Received an empty response from the model.",
                                            "UNKNOWN")]
           ELSE IF outcome = "invalidKey"
           THEN [googleAi |-> <<>>, request |-> request,
                 ret |-> GeminiServiceError("The provided Google API key is invalid.",
                                            "INVALID_API_KEY")]
           ELSE [googleAi |-> client, request |-> request,
                 ret |-> GeminiServiceError("fetch failed", "UNKNOWN")]

generateWithOpenAI(question, knowledgeBase, config, aiName, apiKey) ==
  IF apiKey = ""
  THEN GeminiServiceError("OpenAI API key is not configured.", "API_KEY_MISSING")
  ELSE [text |-> <<"[Mock response from OpenAI/", config.model, "] I am ", aiName,
                   ". You asked: ", question>>]

generateWithOpenRouter(question, knowledgeBase, config, aiName, apiKey) ==
  IF apiKey = ""
  THEN GeminiServiceError("OpenRouter API key is not configured.", "API_KEY_MISSING")
  ELSE [text |-> <<"[Mock response from OpenRouter/", config.model, "] I am ", aiName,
                   ". You asked: ", question>>]

\* a dispatcher that hands the Google key to every adapter
generateAnswerWithGoogleKey(question, knowledgeBase, config, aiName, apiKeys, googleAi, outcome) ==
  IF config.provider = "google"
  THEN generateWithGoogle(question, knowledgeBase, config, aiName, apiKeys.google,
                          googleAi, outcome)
  ELSE IF config.provider = "openai"
  THEN [googleAi |-> googleAi, request |-> <<>>,
        ret |-> generateWithOpenAI(question, knowledgeBase, config, aiName, apiKeys.google)]
  ELSE IF config.provider = "openrouter"
  THEN [googleAi |-> googleAi, request |-> <<>>,
        ret |-> generateWithOpenRouter(question, knowledgeBase, config, aiName,
                                       apiKeys.google)]
  ELSE [googleAi |-> googleAi, request |-> <<>>,
        ret |-> GeminiServiceError("Unsupported model provider", "BAD_REQUEST")]

\* generateAnswer once api.getApiKeys() has returned apiKeys
generateAnswer(question, knowledgeBase, config, aiName, apiKeys, googleAi, outcome) ==
  IF config.provider = "google"
  THEN generateWithGoogle(question, knowledgeBase, config, aiName, apiKeys.google,
                          googleAi, outcome)
  ELSE IF config.provider = "openai"
  THEN [googleAi |-> googleAi, request |-> <<>>,
        ret |-> generateWithOpenAI(question, knowledgeBase, config, aiName, apiKeys.openai)]
  ELSE IF config.provider = "openrouter"
  THEN [googleAi |-> googleAi, request |-> <<>>,
        ret |-> generateWithOpenRouter(question, knowledgeBase, config, aiName,
                                       apiKeys.openrouter)]
  ELSE [googleAi |-> googleAi, request |-> <<>>,
        ret |-> GeminiServiceError("Unsupported model provider", "BAD_REQUEST")]

----------------------------------------------------------------------------
(* The answer service as steps.                                             *)

ApiKeyInputs ==
  {[google |-> "g-key-1"], [google |-> "g-key-2"], [google |-> ""],
   [openai |-> "o-key"], [openai |-> ""], [openrouter |-> "r-key"]}

Providers == {"google", "openai", "openrouter", "anthropic"}

AnswerConfig(provider) ==
  [defaultDb.modelConfig EXCEPT !.provider = provider, !.model = provider \o "-model"]

SetApiKeys(keys) ==
  /\ steps < MaxSteps
  /\ view' = [view EXCEPT !.apiKeys = setApiKeys(view.apiKeys, keys)]
  /\ Apply([op |-> "setApiKeys", keys |-> keys], db, session, [success |-> TRUE])
  /\ steps' = steps + 1
  /\ UNCHANGED <<now, pending>>

GenerateAnswer(provider, outcome) ==
  /\ steps < MaxSteps
  /\ LET apiKeys == getApiKeys(view.apiKeys)
         r == generateAnswer("How do I return an item?", "kb", AnswerConfig(provider),
                             "Atlas", apiKeys, view.googleAi, outcome)
     IN  /\ view' = [view EXCEPT !.googleAi = r.googleAi]
         /\ Apply([op |-> "generateAnswer", provider |-> provider, apiKeys |-> apiKeys,
                   request |-> r.request],
                  db, session, r.ret)
  /\ steps' = steps + 1
  /\ UNCHANGED <<now, pending>>

InitAnswer ==
  /\ db = defaultDb
  /\ session = NoSession
  /\ now = StartTime
  /\ pending = <<>>
  /\ call = [op |-> "none"]
  /\ result = [success |-> TRUE]
  /\ pre = db
  /\ steps = 0
  /\ \E item \in {<<>>, <<[google |-> "g-key-1"]>>} :
        view = [screen |-> "answer", apiKeys |-> item, googleAi |-> <<>>]

NextAnswer ==
  \/ \E keys \in ApiKeyInputs : SetApiKeys(keys)
  \/ \E provider \in Providers, outcome \in GoogleOutcomes : GenerateAnswer(provider, outcome)

SpecAnswer == InitAnswer /\ [][NextAnswer]_vars

----------------------------------------------------------------------------
(* Properties of the answer service (SpecAnswer).                           *)

----------------------------------------------------------------------------
(* apiService.ts: the custom OpenRouter models.  A stored document may lack *)
(* the customOpenRouterModels key; the operations test for it.              *)

HasCustomModels(d) == "customOpenRouterModels" \in DOMAIN d

addCustomOpenRouterModel(d, model) ==
  LET models == IF HasCustomModels(d) THEN d.customOpenRouterModels ELSE <<>>
  IN  IF \E i \in 1..Len(models) : toLowerCase(models[i].id) = toLowerCase(model.id)
      THEN [db |-> d,
            ret |-> [success |-> FALSE,
                     message |-> "A custom model with this ID already exists."]]
      ELSE [db |-> saveDB(Spread(d, [customOpenRouterModels |-> Append(models, model)])),
            ret |-> [success |-> TRUE]]

\* an update whose duplicate check compares the ids as they are written
updateCustomOpenRouterModelCaseSensitive(d, modelId, modelData) ==
  IF ~HasCustomModels(d) THEN [db |-> d, ret |-> [success |-> FALSE, message |-> "Model not found."]]
  ELSE LET models == d.customOpenRouterModels
           modelIndex == FindIndex(models, LAMBDA m : m.id = modelId)
       IN  IF modelIndex = 0
           THEN [db |-> d, ret |-> [success |-> FALSE, message |-> "Model not found."]]
           ELSE IF /\ modelId # modelData.id
                   /\ \E i \in 1..Len(models) : i # modelIndex /\ models[i].id = modelData.id
           THEN [db |-> d,
                 ret |-> [success |-> FALSE,
                          message |-> "A custom model with this ID already exists."]]
           ELSE [db |-> saveDB([d EXCEPT !.customOpenRouterModels[modelIndex] = modelData]),
                 ret |-> [success |-> TRUE]]

updateCustomOpenRouterModel(d, modelId, modelData) ==
  IF ~HasCustomModels(d) THEN [db |-> d, ret |-> [success |-> FALSE, message |-> "Model not found."]]
  ELSE LET models == d.customOpenRouterModels
           modelIndex == FindIndex(models, LAMBDA m : m.id = modelId)
       IN  IF modelIndex = 0
           THEN [db |-> d, ret |-> [success |-> FALSE, message |-> "Model not found."]]
           ELSE IF /\ modelId # modelData.id
                   /\ \E i \in 1..Len(models) :
                         /\ i # modelIndex
                         /\ toLowerCase(models[i].id) = toLowerCase(modelData.id)
           THEN [db |-> d,
                 ret |-> [success |-> FALSE,
                          message |-> "A custom model with this ID already exists."]]
           ELSE [db |-> saveDB([d EXCEPT !.customOpenRouterModels[modelIndex] = modelData]),
                 ret |-> [success |-> TRUE]]

deleteCustomOpenRouterModel(d, modelId) ==
  IF HasCustomModels(d)
  THEN [db |-> saveDB([d EXCEPT !.customOpenRouterModels =
                         SelectSeq(@, LAMBDA m : m.id # modelId)]),
        ret |-> [success |-> TRUE]]
  ELSE [db |-> d, ret |-> [success |-> TRUE]]

----------------------------------------------------------------------------
(* The custom-model operations as steps.                                    *)

CustomModelIds == {<<"x", "/", "a">>, <<"X", "/", "A">>, <<"x", "/", "b">>}

CustomModelInputs == {[id |-> id, name |-> "Model " \o id[3]] : id \in CustomModelIds}

AddCustomOpenRouterModel(model) ==
  /\ steps < MaxSteps
  /\ LET r == addCustomOpenRouterModel(getDB, model)
     IN  Apply([op |-> "addCustomOpenRouterModel", model |-> model], r.db, session, r.ret)
  /\ steps' = steps + 1
  /\ UNCHANGED <<now, pending, view>>

UpdateCustomOpenRouterModel(modelId, modelData) ==
  /\ steps < MaxSteps
  /\ LET r == updateCustomOpenRouterModel(getDB, modelId, modelData)
     IN  Apply([op |-> "updateCustomOpenRouterModel", modelId |-> modelId,
                modelData |-> modelData], r.db, session, r.ret)
  /\ steps' = steps + 1
  /\ UNCHANGED <<now, pending, view>>

DeleteCustomOpenRouterModel(modelId) ==
  /\ steps < MaxSteps
  /\ LET r == deleteCustomOpenRouterModel(getDB, modelId)
     IN  Apply([op |-> "deleteCustomOpenRouterModel", modelId |-> modelId],
               r.db, session, r.ret)
  /\ steps' = steps + 1
  /\ UNCHANGED <<now, pending, view>>

InitModels ==
  /\ db \in {defaultDb, DeleteKey(defaultDb, "customOpenRouterModels")}
  /\ session = NoSession
  /\ now = StartTime
  /\ pending = <<>>
  /\ call = [op |-> "none"]
  /\ result = [success |-> TRUE]
  /\ pre = db
  /\ steps = 0
  /\ view = NoView

NextModels ==
  \/ \E model \in CustomModelInputs : AddCustomOpenRouterModel(model)
  \/ \E modelId \in CustomModelIds, modelData \in CustomModelInputs :
        UpdateCustomOpenRouterModel(modelId, modelData)
  \/ \E modelId \in CustomModelIds : DeleteCustomOpenRouterModel(modelId)

SpecModels == InitModels /\ [][NextModels]_vars

----------------------------------------------------------------------------
(* Properties of the custom models (SpecModels).                            *)

CustomModelsOf(d) == IF HasCustomModels(d) THEN d.customOpenRouterModels ELSE <<>>

\* C18: no two custom models have ids that are equal ignoring case; an add
\* whose id equals a stored id ignoring case, an update whose new id equals
\* another model's id ignoring case, and an update of an id that is not
\* stored return success = false and leave the document as it was.
C18_CustomModelIdsUnique ==
  LET models == CustomModelsOf(db)
      before == CustomModelsOf(pre)
      SameId(a, b) == toLowerCase(a) = toLowerCase(b)
  IN  /\ \A i, j \in 1..Len(models) : i # j => ~SameId(models[i].id, models[j].id)
      /\ (call.op = "addCustomOpenRouterModel" /\
          \E i \in 1..Len(before) : SameId(before[i].id, call.model.id)) =>
            (~result.success /\ db = pre)
      /\ call.op = "updateCustomOpenRouterModel" =>
            LET present == \E i \in 1..Len(before) : before[i].id = call.modelId
                duplicate == \E i \in 1..Len(before) :
                                /\ before[i].id # call.modelId
                                /\ SameId(before[i].id, call.modelData.id)
            IN  (~present \/ duplicate) => (~result.success /\ db = pre)

\* C18 witness: an update that would rename x/b to X/A while x/a is stored
\* has been rejected.
C18_Witness ==
  /\ call.op = "updateCustomOpenRouterModel"
  /\ call.modelId = <<"x", "/", "b">> /\ call.modelData.id = <<"X", "/", "A">>
  /\ \E i \in 1..Len(CustomModelsOf(pre)) : CustomModelsOf(pre)[i].id = <<"x", "/", "b">>
  /\ \E i \in 1..Len(CustomModelsOf(pre)) : CustomModelsOf(pre)[i].id = <<"x", "/", "a">>
  /\ ~result.success
  /\ db = pre

----------------------------------------------------------------------------
(* The chat flow of the application shell (App.handleSendMessage,           *)
(* handleFeedback, handleClearChat) with the conversation API it has at     *)
(* hand.  view.messages is the chat's message list, view.isLoading is set   *)
(* while an answer is awaited, view.asked is the question being answered.   *)

saveConversation(d, convo) ==
  [db |-> saveDB([d EXCEPT !.chatLogs = Append(d.chatLogs, convo)]), ret |-> "void"]

\* console.log(...); return { success: true }
submitFeedback(d, messageId, feedback) == [db |-> d, ret |-> [success |-> TRUE]]

RECURSIVE SumSeq(_)
SumSeq(ns) == IF ns = <<>> THEN 0 ELSE ns[1] + SumSeq(Tail(ns))

\* the messages of the stored conversations tagged with feedback f
TaggedMessages(d, f) ==
  SumSeq([c \in 1..Len(d.chatLogs) |->
            Cardinality({m \in 1..Len(d.chatLogs[c].messages) :
                           Get(d.chatLogs[c].messages[m], "feedback") = f})])

getFeedbackStats(d) ==
  LET good == TaggedMessages(d, "good")
      bad == TaggedMessages(d, "bad")
  IN  IF good = 0 /\ bad = 0 THEN [good |-> 123, bad |-> 12]
      ELSE [good |-> good, bad |-> bad]

\* { id: 'init', sender: 'atlas', text: welcomeText, timestamp: Date.now() }
InitialMessage(clock) ==
  [id |-> <<"init">>, sender |-> "atlas", text |-> "welcomeMessage", timestamp |-> clock]

\* a conversation that a restored backup brought into the store
StoredConversation ==
  [id |-> <<"convo", 1>>, user |-> defaultUsers[3], startTime |-> StartTime - 100,
   messages |-> <<[id |-> <<"msg", StartTime - 100>>, sender |-> "user",
                   text |-> "Where is my order?", timestamp |-> StartTime - 100],
                  [id |-> <<"msg", StartTime - 99>>, sender |-> "atlas",
                   text |-> "It is on its way.", timestamp |-> StartTime - 100]>>]

StoredMessageIds ==
  UNION {{db.chatLogs[c].messages[m].id : m \in 1..Len(db.chatLogs[c].messages)} :
           c \in 1..Len(db.chatLogs)}

Questions == {"How do I return an item?", "What are your hours?"}
Feedbacks == {"good", "bad"}

\* handleSendMessage up to its first await: the user's message joins the chat
HandleSendMessage(text) ==
  /\ steps < MaxSteps
  /\ view.screen = "chat"
  /\ ~view.isLoading
  /\ LET userMessage == [id |-> <<"msg", now>>, sender |-> "user", text |-> text,
                         timestamp |-> now]
     IN  view' = [view EXCEPT !.messages = Append(@, userMessage),
                              !.isLoading = TRUE, !.asked = text]
  /\ Apply([op |-> "handleSendMessage", text |-> text], db, session, "void")
  /\ steps' = steps + 1
  /\ UNCHANGED <<now, pending>>

\* handleSendMessage from api.getKnowledgeBase() on: the answer of
\* generateAnswer, or the message of the error it threw, joins the chat
ReplyToMessage(outcome) ==
  /\ view.isLoading
  /\ now' = now + (SIMULATED_LATENCY \div 2) + 50
  /\ LET r == generateAnswer(view.asked, getDB.knowledgeBase, getDB.modelConfig, "Atlas",
                             getApiKeys(view.apiKeys), view.googleAi, outcome)
         reply == IF "threw" \in DOMAIN r.ret
                  THEN [id |-> <<"err", now'>>, sender |-> "atlas", text |-> r.ret.message,
                        timestamp |-> now', isError |-> TRUE]
                  ELSE [id |-> <<"msg", now' + 1>>, sender |-> "atlas", text |-> r.ret.text,
                        timestamp |-> now']
     IN  /\ view' = [view EXCEPT !.messages = Append(@, reply), !.isLoading = FALSE,
                                 !.googleAi = r.googleAi]
         /\ Apply([op |-> "handleSendMessage.reply", text |-> view.asked],
                  db, session, r.ret)
  /\ UNCHANGED <<pending, steps>>

\* a feedback button of the chat bubble of message i (an answer without
\* feedback yet): handleFeedback(message.id, feedback)
HandleFeedback(i, feedback) ==
  /\ steps < MaxSteps
  /\ view.screen = "chat"
  /\ i \in 1..Len(view.messages)
  /\ view.messages[i].sender # "user"
  /\ "isError" \notin DOMAIN view.messages[i]
  /\ "feedback" \notin DOMAIN view.messages[i]
  /\ LET messageId == view.messages[i].id
         r == submitFeedback(getDB, messageId, feedback)
     IN  /\ view' = [view EXCEPT !.messages =
                       [k \in 1..Len(@) |->
                          IF @[k].id = messageId THEN Spread(@[k], [feedback |-> feedback])
                          ELSE @[k]]]
         /\ Apply([op |-> "submitFeedback", messageId |-> messageId,
                   feedback |-> feedback], r.db, session, r.ret)
  /\ steps' = steps + 1
  /\ UNCHANGED <<now, pending>>

\* api.submitFeedback for a message of a stored conversation
SubmitFeedback(messageId, feedback) ==
  /\ steps < MaxSteps
  /\ LET r == submitFeedback(getDB, messageId, feedback)
     IN  Apply([op |-> "submitFeedback", messageId |-> messageId, feedback |-> feedback],
               r.db, session, r.ret)
  /\ steps' = steps + 1
  /\ UNCHANGED <<now, pending, view>>

GetFeedbackStats ==
  /\ steps < MaxSteps
  /\ Apply([op |-> "getFeedbackStats"], db, session, getFeedbackStats(getDB))
  /\ steps' = steps + 1
  /\ UNCHANGED <<now, pending, view>>

\* handleClearChat: setInitialMessage(panelConfig)
HandleClearChat ==
  /\ view.screen = "chat"
  /\ Len(view.messages) > 1
  /\ view' = [view EXCEPT !.messages = <<InitialMessage(now)>>]
  /\ UNCHANGED <<db, session, now, pending, call, result, pre, steps>>

\* the header's logout button while the chat is shown: App.handleLogout,
\* api.logout(), setMessages([]), navigateAndReset('landing'); isLoading and
\* a request in flight stay as they are
HandleLogoutFromChat ==
  /\ view.screen = "chat"
  /\ session # NoSession
  /\ LET r == logout(getDB, session)
     IN  Apply([op |-> "logout"], r.db, r.session, r.ret)
  /\ view' = [view EXCEPT !.screen = "landing", !.messages = <<>>]
  /\ UNCHANGED <<now, pending, steps>>

InitChat ==
  /\ db \in {defaultDb, [defaultDb EXCEPT !.chatLogs = <<StoredConversation>>]}
  /\ session = <<defaultUsers[3]>>
  /\ now = StartTime
  /\ pending = <<>>
  /\ call = [op |-> "none"]
  /\ result = [success |-> TRUE]
  /\ pre = db
  /\ steps = 0
  /\ \E item \in {<<>>, <<[google |-> "g-key-1"]>>} :
        view = [screen |-> "chat", messages |-> <<InitialMessage(StartTime)>>,
                isLoading |-> FALSE, asked |-> "", apiKeys |-> item, googleAi |-> <<>>]

NextChat ==
  \/ \E text \in Questions : HandleSendMessage(text)
  \/ \E outcome \in GoogleOutcomes : ReplyToMessage(outcome)
  \/ \E i \in 1..Len(view.messages), f \in Feedbacks : HandleFeedback(i, f)
  \/ \E id \in StoredMessageIds, f \in Feedbacks : SubmitFeedback(id, f)
  \/ GetFeedbackStats
  \/ HandleClearChat
  \/ HandleLogoutFromChat

SpecChat == InitChat /\ [][NextChat]_vars

----------------------------------------------------------------------------
(* Properties of the chat flow (SpecChat).                                  *)

MessageIds(messages) == {messages[m].id : m \in 1..Len(messages)}

\* C19: once the reply to a question has joined the chat, some stored
\* conversation contains the question and the reply; and no step of the chat
\* removes or reorders stored conversations.
C19_ChatFlowStoresConversation ==
  [][ /\ call'.op = "handleSendMessage.reply" =>
           LET n == Len(view'.messages)
           IN  \E c \in 1..Len(db'.chatLogs) :
                  {view'.messages[n - 1].id, view'.messages[n].id}
                     \subseteq MessageIds(db'.chatLogs[c].messages)
      /\ Len(db'.chatLogs) >= Len(db.chatLogs)
      /\ \A c \in 1..Len(db.chatLogs) : db'.chatLogs[c].id = db.chatLogs[c].id ]_vars

\* C20: submitFeedback(messageId, feedback) for a stored message leaves the
\* document as it was except that this message carries the feedback, which
\* getFeedbackStats then counts.
C20_FeedbackTagsStoredMessage ==
  (call.op = "submitFeedback" /\ call.messageId \in MessageIds(StoredConversation.messages)
     /\ Len(pre.chatLogs) > 0) =>
     /\ \A c \in 1..Len(db.chatLogs) :
           \A m \in 1..Len(db.chatLogs[c].messages) :
              db.chatLogs[c].messages[m].id = call.messageId =>
                 Get(db.chatLogs[c].messages[m], "feedback") = call.feedback
     /\ \A k \in DOMAIN db \ {"chatLogs"} : db[k] = pre[k]
     /\ getFeedbackStats(db)[call.feedback] = TaggedMessages(pre, call.feedback) + 1

----------------------------------------------------------------------------
(* The dashboard's sections and the stored permission table (SpecRoles).    *)

\* C21: whenever the dashboard renders its front desk or its roles section,
\* the role of the logged-in user has, in the stored permission table at that
\* moment, the capability of that section (canViewDashboard, canManageRoles),
\* also after permissions were edited and saved with the dashboard open.
C21_RenderedSectionHasCapability ==
  session # NoSession =>
     /\ view.screen = "dashboard" => db.permissions[session[1].role].canViewDashboard
     /\ view.screen \in {"roles.loading", "roles"} =>
           db.permissions[session[1].role].canManageRoles

----------------------------------------------------------------------------
(* The user form (UserFormModal) of the UserManagement view.  view holds    *)
(* the list the view fetched and, while the form is open, userToEdit and    *)
(* formData.  currentUser is the logged-in user the shell hands down.       *)

\* a role filter that lets every role through
manageableRolesUnrestricted(currentUserRole) == USER_ROLES

\* USER_ROLES.filter(role => ...) of UserFormModal
manageableRoles(currentUserRole) ==
  SelectSeq(USER_ROLES, LAMBDA role :
    IF currentUserRole = "admin" THEN TRUE
    ELSE IF currentUserRole = "manager" /\ role # "admin" THEN TRUE
    ELSE IF currentUserRole = "supervisor" /\ role \notin {"admin", "manager"} THEN TRUE
    ELSE FALSE)

\* the form's initial state for a new user
BlankFormData ==
  [username |-> <<>>, password |-> "", firstName |-> <<>>, lastName |-> <<>>,
   email |-> <<>>, mobile |-> "", role |-> "client", emailVerified |-> FALSE,
   ip |-> "", device |-> "", os |-> ""]

\* validate(): no error is found
validate(formData, userToEdit) ==
  /\ formData.username # <<>>
  /\ userToEdit = <<>> => formData.password # ""
  /\ formData.firstName # <<>>
  /\ formData.lastName # <<>>
  /\ formData.email # <<>>

\* the stored users the form's actors and targets are taken from: the
\* default ones and one user of each remaining role
FormDb ==
  addUser(addUser(defaultDb, FormUser(<<"s", "u", "e">>, "password", "supervisor")).db,
          FormUser(<<"s", "a", "m">>, "password", "support")).db

\* the usernames typed into the form of a new user
FormNames == {<<"n", "e", "w", "b", "i", "e">>, <<"S", "a", "m">>}

\* fetchUsers: the view's list is the store's
UsersView == [screen |-> "users", users |-> getDB.users]

\* the add button: handleAddUser, then the form's effect fills formData
HandleAddUser ==
  /\ view.screen = "users"
  /\ view' = [screen |-> "form", users |-> view.users, userToEdit |-> <<>>,
              formData |-> BlankFormData, errors |-> FALSE]
  /\ UNCHANGED <<db, session, now, pending, call, result, pre, steps>>

\* the edit button of row i, rendered when canManageUser(user)
HandleEditUser(i) ==
  /\ view.screen = "users"
  /\ i \in 1..Len(view.users)
  /\ canManageUser(session[1], view.users[i])
  /\ view' = [screen |-> "form", users |-> view.users, userToEdit |-> <<view.users[i]>>,
              formData |-> Spread(view.users[i], [password |-> ""]), errors |-> FALSE]
  /\ UNCHANGED <<db, session, now, pending, call, result, pre, steps>>

\* handleChange on the fields of a new user (the username field is disabled
\* when a user is edited)
HandleChange(username) ==
  /\ view.screen = "form"
  /\ view.userToEdit = <<>>
  /\ view' = [view EXCEPT !.formData =
                Spread(@, [username |-> username, password |-> "secret",
                           firstName |-> <<"N", "e", "w">>, lastName |-> <<"U", "s", "e", "r">>,
                           email |-> username \o <<"@", "x", ".", "i", "o">>])]
  /\ UNCHANGED <<db, session, now, pending, call, result, pre, steps>>

\* a role button of the dropdown, one per manageable role
HandleRoleSelect(role) ==
  /\ view.screen = "form"
  /\ \E i \in 1..Len(manageableRoles(session[1].role)) :
        manageableRoles(session[1].role)[i] = role
  /\ view' = [view EXCEPT !.formData = Spread(@, [role |-> role])]
  /\ UNCHANGED <<db, session, now, pending, call, result, pre, steps>>

\* handleSave: validate, then handleSaveUser (api.updateUser for an edited
\* user, api.addUser for a new one); on success the form closes and the view
\* fetches the list again
HandleSave ==
  /\ steps < MaxSaves
  /\ view.screen = "form"
  /\ IF ~validate(view.formData, view.userToEdit)
     THEN /\ view' = [view EXCEPT !.errors = TRUE]
          /\ UNCHANGED <<db, session, call, result, pre>>
     ELSE IF view.userToEdit # <<>>
     THEN LET username == view.formData.username
              r == updateUser(getDB, username, view.formData)
              c == [op |-> "updateUser", via |-> "form", username |-> username,
                    updateData |-> view.formData]
          IN  IF r.found
              THEN LET resume == updateUserResume(session, username, r.user)
                   IN  /\ Apply(c, r.db, resume.session, resume.ret)
                       /\ view' = [screen |-> "users", users |-> r.db.users]
              ELSE /\ Apply(c, r.db, session, r.ret)
                   /\ view' = [view EXCEPT !.errors = TRUE]
     ELSE LET r == addUser(getDB, view.formData)
          IN  /\ Apply([op |-> "addUser", via |-> "form", userData |-> view.formData],
                       r.db, session, r.ret)
              /\ view' = IF r.ret.success
                         THEN [screen |-> "users", users |-> r.db.users]
                         ELSE [view EXCEPT !.errors = TRUE]
  /\ steps' = steps + 1
  /\ UNCHANGED <<now, pending>>

\* the cancel button: onClose, handleModalClose
HandleModalClose ==
  /\ view.screen = "form"
  /\ view' = UsersView
  /\ UNCHANGED <<db, session, now, pending, call, result, pre, steps>>

InitForm ==
  /\ db = FormDb
  /\ session \in {<<FormDb.users[i]>> : i \in 1..Len(FormDb.users)}
  /\ now = StartTime
  /\ pending = <<>>
  /\ call = [op |-> "none"]
  /\ result = [success |-> TRUE]
  /\ pre = db
  /\ steps = 0
  /\ view = [screen |-> "users", users |-> FormDb.users]

NextForm ==
  \/ HandleAddUser
  \/ \E i \in 1..(Len(FormDb.users) + 1) : HandleEditUser(i)
  \/ \E n \in FormNames : HandleChange(n)
  \/ \E i \in 1..Len(USER_ROLES) : HandleRoleSelect(USER_ROLES[i])
  \/ HandleSave
  \/ HandleModalClose

SpecForm == InitForm /\ [][NextForm]_vars

----------------------------------------------------------------------------
(* Properties of the user form (SpecForm).                                  *)

\* the stored user with the given username
StoredUser(d, username) ==
  d.users[FindIndex(d.users, LAMBDA u : u.username = username)]

\* the roles the claim lets an actor of the given role assign
AssignableAsClaimed(actorRole) ==
  CASE actorRole = "admin" -> {"admin", "manager", "supervisor", "support", "client"}
    [] actorRole = "manager" -> {"manager", "supervisor", "support", "client"}
    [] actorRole = "supervisor" -> {"supervisor", "support", "client"}
    [] OTHER -> {}

\* C22: the roles the open user form offers are all roles for an admin, all
\* but admin for a manager, all but admin and manager for a supervisor and
\* none for a support or client actor; and a user that a save of the form
\* has created or changed has no role ranked above the actor's own.
C22_AssignableRolesBoundedByRank ==
  /\ view.screen = "form" =>
        {manageableRoles(session[1].role)[i] :
            i \in 1..Len(manageableRoles(session[1].role))}
          = AssignableAsClaimed(session[1].role)
  /\ (/\ call.op \in {"addUser", "updateUser"}
      /\ result.success)
     => LET name == IF call.op = "addUser" THEN call.userData.username
                    ELSE call.username
        IN  RoleIndex(StoredUser(db, name).role) >= RoleIndex(session[1].role)

\* C22 witness: a manager has raised a user it manages to its own role,
\* manager, through the form.
C22_Witness ==
  /\ call.op = "updateUser"
  /\ result.success
  /\ session[1].role = "manager"
  /\ StoredUser(pre, call.username).role # "manager"
  /\ StoredUser(db, call.username).role = "manager"

----------------------------------------------------------------------------
(* apiService.ts: the two password operations.                              *)

updatePassword(d, username, oldPass, newPass) ==
  LET i == FindIndex(d.users, LAMBDA u : u.username = username)
  IN  IF i = 0 \/ Get(d.users[i], "password") # oldPass
      THEN [db |-> d, ret |-> [success |-> FALSE,
                               message |-> "Current password is incorrect."]]
      ELSE [db |-> saveDB([d EXCEPT !.users[i] = Spread(@, [password |-> newPass])]),
            ret |-> [success |-> TRUE, message |-> "Password updated successfully."]]

resetUserPassword(d, username, newPass) ==
  LET i == FindIndex(d.users, LAMBDA u : u.username = username)
  IN  IF i = 0
      THEN [db |-> d, ret |-> [success |-> FALSE, message |-> "User not found."]]
      ELSE [db |-> saveDB([d EXCEPT !.users[i] = Spread(@, [password |-> newPass])]),
            ret |-> [success |-> TRUE, message |-> "Password has been reset."]]

----------------------------------------------------------------------------
(* Overlapping API calls of one tab.  A call sets a timer for its delay and *)
(* its block runs when the timer fires; an await inside the block sets a    *)
(* further timer.  pending holds the timers, each with the call it belongs  *)
(* to and the point the call resumes at.  view keeps the API keys item and  *)
(* two records of the behaviour: wrote lists the mutations in the order of  *)
(* their writes, completed in the order in which their calls returned.      *)

\* the calls that are made
OverlapCalls ==
  {[op |-> "updateUser", username |-> <<"m", "a", "n", "a", "g", "e", "r">>, updateData |-> [password |-> "x"]],
   [op |-> "updateUser", username |-> <<"n", "o", "b", "o", "d", "y">>, updateData |-> [password |-> "x"]],
   [op |-> "resetUserPassword", username |-> <<"m", "a", "n", "a", "g", "e", "r">>, newPass |-> "y"],
   [op |-> "updateKnowledgeEntry",
    entry |-> [id |-> KbId(1), tag |-> "Welcome", content |-> "Hello.",
               lastUpdated |-> StartTime, updatedBy |-> "admin"]],
   [op |-> "updateKnowledgeEntry",
    entry |-> [id |-> KbId(0), tag |-> "Returns", content |-> "30 days.",
               lastUpdated |-> StartTime, updatedBy |-> "admin"]],
   [op |-> "setApiKeys", keys |-> [google |-> "g-1"]],
   [op |-> "setApiKeys", keys |-> [google |-> "g-2", openai |-> "o-1"]]}

\* a document read when the call was made instead of when its block runs
DocumentReadAtCall(p) == p.seen

\* const db = getDB(): the document a block works on is the one stored when
\* the block runs
DocumentRead(p) == getDB

\* what a mutation, applied at the clock value it carries, makes of the
\* document and the API keys item
ApplyMutation(c, doc) ==
  CASE c.op = "updateUser" ->
         [doc EXCEPT !.db = updateUser(doc.db, c.username, c.updateData).db]
    [] c.op = "resetUserPassword" ->
         [doc EXCEPT !.db = resetUserPassword(doc.db, c.username, c.newPass).db]
    [] c.op = "updateKnowledgeEntry" ->
         LET r == updateKnowledgeEntry(doc.db, c.entry)
         IN  [doc EXCEPT !.db = IF r.found THEN r.db
                                ELSE addKnowledgeEntry(doc.db, c.entry, c.at).db]
    [] c.op = "setApiKeys" ->
         [doc EXCEPT !.keys = setApiKeys(doc.keys, c.keys)]

\* the block of the call of timer p, run on document d, keys item keys and
\* session s at the given clock value: what is stored afterwards, the timer
\* the block sets (next), and the mutation it wrote or returned from
StepOf(p, d, keys, s, clock) ==
  LET same == [db |-> d, keys |-> keys, session |-> s, next |-> <<>>,
               wrote |-> <<>>, completed |-> <<>>]
      c == Spread(p.call, [at |-> clock])
  IN  CASE p.at = "updateUser" ->
             LET r == updateUser(d, p.call.username, p.call.updateData)
             IN  IF r.found
                 THEN Spread(same,
                        [db |-> r.db, wrote |-> <<c>>,
                         next |-> <<[call |-> c, at |-> "updateUser.getCurrentUser",
                                     user |-> r.user, due |-> clock + 50]>>])
                 ELSE same
        [] p.at = "updateUser.getCurrentUser" ->
             Spread(same,
               [session |-> updateUserResume(s, p.call.username, p.user).session,
                completed |-> <<p.call>>])
        [] p.at = "resetUserPassword" ->
             LET r == resetUserPassword(d, p.call.username, p.call.newPass)
             IN  IF r.ret.success
                 THEN Spread(same, [db |-> r.db, wrote |-> <<c>>, completed |-> <<c>>])
                 ELSE same
        [] p.at = "updateKnowledgeEntry" ->
             LET r == updateKnowledgeEntry(d, p.call.entry)
             IN  IF r.found
                 THEN Spread(same, [db |-> r.db, wrote |-> <<c>>, completed |-> <<c>>])
                 ELSE Spread(same,
                        [next |-> <<[call |-> p.call, at |-> "addKnowledgeEntry",
                                     due |-> clock + SIMULATED_LATENCY]>>])
        [] p.at = "addKnowledgeEntry" ->
             Spread(same, [db |-> addKnowledgeEntry(d, p.call.entry, clock).db,
                           wrote |-> <<c>>, completed |-> <<c>>])
        [] p.at = "setApiKeys" ->
             Spread(same, [next |-> <<[call |-> p.call, at |-> "setApiKeys.getApiKeys",
                                       due |-> clock + 50]>>])
        [] p.at = "setApiKeys.getApiKeys" ->
             Spread(same, [keys |-> setApiKeys(keys, p.call.keys),
                           wrote |-> <<c>>, completed |-> <<c>>])

\* a call is made: await delay(SIMULATED_LATENCY)
MakeCall(c) ==
  /\ steps < MaxSteps
  /\ Len(pending) < MaxPending
  /\ pending' = Append(pending, [call |-> c, at |-> c.op, seen |-> getDB,
                                 due |-> now + SIMULATED_LATENCY])
  /\ steps' = steps + 1
  /\ UNCHANGED <<db, session, now, call, result, pre, view>>

\* the next timer fires and the block it belongs to runs up to its next
\* await or its return
TimerFires(i) ==
  /\ NextTimer(i)
  /\ LET p == pending[i]
         r == StepOf(p, IF "seen" \in DOMAIN p THEN DocumentRead(p) ELSE getDB,
                     view.apiKeys, session, now)
     IN  /\ Apply(Spread(p.call, [at |-> p.at]), r.db, r.session,
                  [returned |-> r.next = <<>>])
         /\ pending' = RemoveAt(pending, i) \o r.next
         /\ view' = [view EXCEPT !.apiKeys = r.keys,
                                 !.wrote = @ \o r.wrote,
                                 !.completed = @ \o r.completed]
  /\ UNCHANGED <<now, steps>>

InitOverlap ==
  /\ db = defaultDb
  /\ session = <<defaultUsers[1]>>
  /\ now = StartTime
  /\ pending = <<>>
  /\ call = [op |-> "none"]
  /\ result = [returned |-> TRUE]
  /\ pre = db
  /\ steps = 0
  /\ view = [screen |-> "overlap", apiKeys |-> <<>>, wrote |-> <<>>, completed |-> <<>>]

NextOverlap ==
  \/ \E c \in OverlapCalls : MakeCall(c)
  \/ Tick
  \/ \E i \in 1..Len(pending) : TimerFires(i)

SpecOverlap == InitOverlap /\ [][NextOverlap]_vars

----------------------------------------------------------------------------
(* Properties of overlapping calls (SpecOverlap).                           *)

RECURSIVE Replay(_, _)
\* the mutations of a list applied one after another
Replay(doc, mutations) ==
  IF mutations = <<>> THEN doc
  ELSE Replay(ApplyMutation(Head(mutations), doc), Tail(mutations))

Stored == [db |-> db, keys |-> view.apiKeys]
StoredAtFirst == [db |-> defaultDb, keys |-> <<>>]

\* C23 as stated: when every call has returned, the stored document and keys
\* are what the successful mutations make of the initial ones when applied
\* one after another in the order in which their calls completed.
C23_FinalIsReplayInCompletionOrder ==
  pending = <<>> => Stored = Replay(StoredAtFirst, view.completed)

\* C23 as amended: within a single tab, overlapping API calls never lose an
\* update: every mutating call reads the persisted document and writes it
\* back in one uninterrupted step after its simulated delay has elapsed, so
\* for any overlap of delays the final document equals the result of
\* applying all successful mutations one after another in the order in which
\* they wrote (which is the order in which they completed except for
\* updateUser, which completes only after a further getCurrentUser wait that
\* follows its write).
C23_FinalIsReplayInWriteOrder ==
  pending = <<>> => Stored = Replay(StoredAtFirst, view.wrote)

\* C23 witness: two overlapping calls have both returned, the one that wrote
\* first having completed last.
C23_Witness ==
  /\ pending = <<>>
  /\ Len(view.wrote) = 2
  /\ view.completed = <<view.wrote[2], view.wrote[1]>>
  /\ view.wrote[1] # view.wrote[2]

----------------------------------------------------------------------------
(* The entry form of the knowledge-base view (EntryFormModal inside         *)
(* KnowledgeBaseManagement).  view holds the parent's entryToEdit (<<>> for *)
(* null) and the form's fields, initialData and saveStatus; pending holds   *)
(* the auto-save timer and the saves in flight.  A save reads entryToEdit   *)
(* from the handler it was started with, that is as rendered when the save  *)
(* began.                                                                    *)

BlankEntryForm == [tag |-> "", content |-> ""]

ClosedEntryForm == [screen |-> "kb", entryToEdit |-> <<>>, opened |-> 0]

WithoutAutoSaveTimer(q) == SelectSeq(q, LAMBDA p : p.at # "autoSave")

\* the effect on [tag, content, isOpen, handleAutoSave]: the timer is cleared
\* and, when the fields differ from initialData, the status becomes 'unsaved'
\* and the timer is set for 5 seconds
AutoSaveEffect(v, q, clock) ==
  IF v.screen = "kbform" /\ v.form # v.initialData
  THEN [view |-> [v EXCEPT !.saveStatus = "unsaved"],
        pending |-> Append(WithoutAutoSaveTimer(q), [at |-> "autoSave", due |-> clock + 5000])]
  ELSE [view |-> v, pending |-> WithoutAutoSaveTimer(q)]

\* the effect on [entryToEdit, isOpen]: the fields and initialData are taken
\* from entryToEdit
EntryToEditEffect(v) ==
  IF v.screen = "kbform"
  THEN LET data == IF v.entryToEdit = <<>> THEN BlankEntryForm
                   ELSE [tag |-> v.entryToEdit[1].tag, content |-> v.entryToEdit[1].content]
       IN  [v EXCEPT !.form = data, !.initialData = data, !.saveStatus = "saved"]
  ELSE v

\* onSave({ tag, content }): handleSaveEntry up to `await api.getCurrentUser()`
StartedSave(v, from, clock) ==
  [at |-> "handleSaveEntry", from |-> from, entryToEdit |-> v.entryToEdit,
   formData |-> v.form, due |-> clock + 50]

\* the add button: handleAddEntry
HandleAddEntry ==
  /\ view.screen = "kb"
  /\ view.opened = 0
  /\ view' = [screen |-> "kbform", entryToEdit |-> <<>>, opened |-> view.opened + 1,
              form |-> BlankEntryForm, initialData |-> BlankEntryForm,
              saveStatus |-> "saved"]
  /\ UNCHANGED <<db, session, now, pending, call, result, pre, steps>>

\* typing into the tag and content fields
SetTagAndContent(formData) ==
  /\ steps < MaxSaves
  /\ view.screen = "kbform"
  /\ formData # view.form
  /\ LET e == AutoSaveEffect([view EXCEPT !.form = formData], pending, now)
     IN  view' = e.view /\ pending' = e.pending
  /\ steps' = steps + 1
  /\ UNCHANGED <<db, session, now, call, result, pre>>

\* the auto-save timer fires: handleAutoSave
HandleAutoSave(i) ==
  /\ NextTimer(i)
  /\ pending[i].at = "autoSave"
  /\ IF view.saveStatus # "unsaved" \/ view.form.tag = "" \/ view.form.content = ""
     THEN /\ pending' = RemoveAt(pending, i)
          /\ view' = view
     ELSE LET e == AutoSaveEffect([view EXCEPT !.saveStatus = "saving"],
                                  RemoveAt(pending, i), now)
          IN  /\ view' = e.view
              /\ pending' = Append(e.pending, StartedSave(view, "auto", now))
  /\ UNCHANGED <<db, session, now, call, result, pre, steps>>

\* the 'save and close' button: handleSaveAndClose
HandleSaveAndClose ==
  /\ steps < MaxSaves
  /\ view.screen = "kbform"
  /\ IF view.form.tag = "" \/ view.form.content = ""
     THEN /\ pending' = WithoutAutoSaveTimer(pending)
          /\ view' = view
     ELSE LET e == AutoSaveEffect([view EXCEPT !.saveStatus = "saving"], pending, now)
          IN  /\ view' = e.view
              /\ pending' = Append(e.pending, StartedSave(view, "close", now))
  /\ steps' = steps + 1
  /\ UNCHANGED <<db, session, now, call, result, pre>>

\* handleSaveEntry after getCurrentUser: the entry is built and
\* api.updateKnowledgeEntry or api.addKnowledgeEntry is called
HandleSaveEntry(i) ==
  /\ NextTimer(i)
  /\ pending[i].at = "handleSaveEntry"
  /\ LET p == pending[i]
         updatedBy == IF session # NoSession THEN session[1].username ELSE <<"s", "y", "s", "t", "e", "m">>
         stamp == Spread(p.formData, [lastUpdated |-> now, updatedBy |-> updatedBy])
         update == p.entryToEdit # <<>> /\ p.entryToEdit[1].id # ""
         entry == IF update THEN Spread(p.entryToEdit[1], stamp) ELSE stamp
     IN  pending' = Append(RemoveAt(pending, i),
                      [at |-> IF update THEN "updateKnowledgeEntry" ELSE "addKnowledgeEntry",
                       from |-> p.from, entry |-> entry, new |-> ~update,
                       due |-> now + SIMULATED_LATENCY])
  /\ UNCHANGED <<db, session, now, call, result, pre, steps, view>>

\* the API call of a save returns: handleSaveEntry's setEntryToEdit(savedEntry)
\* after an add, then the caller's continuation (handleAutoSave sets
\* initialData and 'saved'; handleSaveAndClose calls onClose)
SaveReturns(i) ==
  /\ NextTimer(i)
  /\ pending[i].at \in {"updateKnowledgeEntry", "addKnowledgeEntry"}
  /\ LET p == pending[i]
         u == updateKnowledgeEntry(getDB, p.entry)
     IN  IF p.at = "updateKnowledgeEntry" /\ ~u.found
         THEN /\ Apply([op |-> p.at, entry |-> p.entry], u.db, session,
                       [awaiting |-> "addKnowledgeEntry"])
              /\ pending' = Append(RemoveAt(pending, i),
                              [p EXCEPT !.at = "addKnowledgeEntry",
                                        !.due = now + SIMULATED_LATENCY])
              /\ view' = view
         ELSE LET r == IF p.at = "updateKnowledgeEntry" THEN u
                       ELSE addKnowledgeEntry(getDB, p.entry, now)
                  v1 == IF p.new
                        THEN EntryToEditEffect([view EXCEPT !.entryToEdit = <<r.ret>>])
                        ELSE view
                  v2 == IF p.from = "close"
                        THEN [screen |-> "kb", entryToEdit |-> <<>>, opened |-> view.opened]
                        ELSE IF v1.screen = "kbform"
                        THEN [v1 EXCEPT !.initialData = [tag |-> r.ret.tag,
                                                         content |-> r.ret.content],
                                        !.saveStatus = "saved"]
                        ELSE v1
                  e == AutoSaveEffect(v2, RemoveAt(pending, i), now)
              IN  /\ Apply([op |-> p.at, entry |-> p.entry], r.db, session, r.ret)
                  /\ view' = e.view
                  /\ pending' = e.pending
  /\ UNCHANGED <<now, steps>>

InitEntryForm ==
  /\ db = defaultDb
  /\ session = <<defaultUsers[1]>>
  /\ now = StartTime
  /\ pending = <<>>
  /\ call = [op |-> "none"]
  /\ result = [success |-> TRUE]
  /\ pre = db
  /\ steps = 0
  /\ view = ClosedEntryForm

NextEntryForm ==
  \/ HandleAddEntry
  \/ \E f \in KbFormData : SetTagAndContent(f)
  \/ Tick
  \/ \E i \in 1..Len(pending) : HandleAutoSave(i)
  \/ HandleSaveAndClose
  \/ \E i \in 1..Len(pending) : HandleSaveEntry(i)
  \/ \E i \in 1..Len(pending) : SaveReturns(i)

SpecEntryForm == InitEntryForm /\ [][NextEntryForm]_vars

----------------------------------------------------------------------------
(* Properties of the entry form (SpecEntryForm).                            *)

\* C24: creating one new entry through the entry form adds exactly one entry
\* to the store: however the auto-save and 'save and close' interleave with
\* each other and with a save in flight, the store never holds more than one
\* entry beyond the initial ones per form opened for a new entry.
C24_OneEntryPerNewEntryForm ==
  Len(db.knowledgeBase) <= Len(defaultDb.knowledgeBase) + view.opened

----------------------------------------------------------------------------
(* The automatic-backup part of the backup view (BackupAndRestore.tsx).     *)
(* view holds the component's schedule and driveConfig; pending holds the   *)
(* API calls in flight, each with the time its delay ends.                  *)

\* fetchData of the mount effect
BackupView(d) ==
  [screen |-> "backup", schedule |-> d.backupSchedule, driveConfig |-> d.googleDriveConfig]

\* the enable-backup checkbox, disabled while the view shows no connection
HandleScheduleChange(enabled) ==
  /\ steps < MaxSteps
  /\ view.driveConfig.connected
  /\ view.schedule.enabled # enabled
  /\ view' = [view EXCEPT !.schedule = Spread(@, [enabled |-> enabled])]
  /\ steps' = steps + 1
  /\ UNCHANGED <<db, session, now, pending, call, result, pre>>

\* the save button, disabled while the view shows no connection
HandleSaveSchedule ==
  /\ steps < MaxSteps
  /\ Len(pending) < MaxPending
  /\ view.driveConfig.connected
  /\ pending' = Append(pending, [at |-> "updateBackupSchedule", schedule |-> view.schedule,
                                 due |-> now + SIMULATED_LATENCY])
  /\ steps' = steps + 1
  /\ UNCHANGED <<db, session, now, call, result, pre, view>>

\* the connect link, shown while the view shows no connection
HandleDriveConnect ==
  /\ steps < MaxSteps
  /\ Len(pending) < MaxPending
  /\ ~view.driveConfig.connected
  /\ pending' = Append(pending, [at |-> "connectGoogleDrive", due |-> now + 1000])
  /\ steps' = steps + 1
  /\ UNCHANGED <<db, session, now, call, result, pre, view>>

\* the disconnect link, shown while the view shows a connection
HandleDriveDisconnect ==
  /\ steps < MaxSteps
  /\ Len(pending) < MaxPending
  /\ view.driveConfig.connected
  /\ pending' = Append(pending, [at |-> "disconnectGoogleDrive",
                                 due |-> now + SIMULATED_LATENCY])
  /\ steps' = steps + 1
  /\ UNCHANGED <<db, session, now, call, result, pre, view>>

\* a call's delay has ended: its block runs and the handler that awaited it
\* goes on
BackupCallReturns(i) ==
  /\ NextTimer(i)
  /\ LET p == pending[i]
     IN  CASE p.at = "updateBackupSchedule" ->
                LET r == updateBackupSchedule(getDB, p.schedule)
                IN  /\ Apply([op |-> p.at, schedule |-> p.schedule], r.db, session, r.ret)
                    /\ view' = view
           [] p.at = "connectGoogleDrive" ->
                LET r == connectGoogleDrive(getDB)
                IN  /\ Apply([op |-> p.at], r.db, session, r.ret)
                    /\ view' = [view EXCEPT !.driveConfig = r.ret.config]
           [] p.at = "disconnectGoogleDrive" ->
                LET r == disconnectGoogleDrive(getDB)
                IN  /\ Apply([op |-> p.at], r.db, session, r.ret)
                    /\ view' = [view EXCEPT !.driveConfig = r.ret.config,
                                            !.schedule = Spread(@, [enabled |-> FALSE])]
  /\ pending' = RemoveAt(pending, i)
  /\ UNCHANGED <<now, steps>>

\* the view is mounted on the default store or on one that a connect has
\* been saved to
InitDrive ==
  /\ db \in {defaultDb, connectGoogleDrive(defaultDb).db}
  /\ session = <<defaultUsers[1]>>
  /\ now = StartTime
  /\ pending = <<>>
  /\ call = [op |-> "none"]
  /\ result = [success |-> TRUE]
  /\ pre = db
  /\ steps = 0
  /\ view = BackupView(db)

NextDrive ==
  \/ \E enabled \in BOOLEAN : HandleScheduleChange(enabled)
  \/ HandleSaveSchedule
  \/ HandleDriveConnect
  \/ HandleDriveDisconnect
  \/ Tick
  \/ \E i \in 1..Len(pending) : BackupCallReturns(i)

SpecDrive == InitDrive /\ [][NextDrive]_vars

----------------------------------------------------------------------------
(* Properties of the automatic-backup settings (SpecDrive).                 *)

\* C25: in the persisted document backupSchedule.enabled is never true while
\* googleDriveConfig.connected is false, for any order and overlap of the
\* connect, disconnect and save-schedule actions of the backup view.
C25_EnabledOnlyWhileConnected ==
  db.backupSchedule.enabled => db.googleDriveConfig.connected

----------------------------------------------------------------------------
(* The login form (LoginPage) and its lockout.  view holds the mounted      *)
(* form's isLocked and isLoading, its interval (<<>> for none, <<endTime>>  *)
(* for one started by startLockoutTimer(endTime)), the intervals started by *)
(* forms that were unmounted by then (orphans), and the sessionStorage      *)
(* items loginAttempts (0 when absent) and lockoutUntil (<<>> when absent). *)
(* pending holds the submissions in flight; alive says whether the form     *)
(* that made the submission is still mounted, since a state update of an    *)
(* unmounted component does nothing.  Two records of the behaviour are      *)
(* kept: failedIn counts, per period between lockouts and successful        *)
(* logins, the failed submissions that reached the API in that period, and  *)
(* lastLockout is the latest lockout end that was stored.                   *)

MAX_LOGIN_ATTEMPTS == 5
LOCKOUT_DURATION_MS == 5 * 60 * 1000

SubmittedNames == {<<"a", "d", "m", "i", "n">>, <<"m", "a", "n", "a", "g", "e", "r">>}
SubmittedPasswords == {"password", "wrong"}

\* startLockoutTimer(endTime) as run by a mounted form: updateTimer once,
\* then every second
startLockoutTimer(v, endTime, clock) ==
  IF endTime - clock <= 0
  THEN [v EXCEPT !.isLocked = FALSE, !.lockoutUntil = <<>>, !.interval = <<>>]
  ELSE [v EXCEPT !.isLocked = TRUE, !.interval = <<endTime>>]

\* a form is mounted: fresh component state, then the mount effect
MountLoginPage(v, clock) ==
  LET fresh == [v EXCEPT !.screen = "login", !.isLocked = FALSE, !.isLoading = FALSE,
                         !.interval = <<>>]
  IN  IF v.lockoutUntil # <<>>
      THEN IF v.lockoutUntil[1] > clock
           THEN startLockoutTimer(fresh, v.lockoutUntil[1], clock)
           ELSE [fresh EXCEPT !.lockoutUntil = <<>>]
      ELSE fresh

\* handleFailedLoginAttempt, run by a form that is mounted (alive) or not
handleFailedLoginAttempt(v, alive, clock) ==
  LET currentAttempts == v.loginAttempts + 1
      endTime == clock + LOCKOUT_DURATION_MS
  IN  IF currentAttempts >= MAX_LOGIN_ATTEMPTS
      THEN LET stored == [v EXCEPT !.lockoutUntil = <<endTime>>, !.loginAttempts = 0,
                                   !.lastLockout = endTime,
                                   !.failedIn = Append(@, 0)]
           IN  IF alive THEN startLockoutTimer(stored, endTime, clock)
               ELSE [stored EXCEPT !.orphans = @ \cup {endTime}]
      ELSE [v EXCEPT !.loginAttempts = currentAttempts]

\* handleSubmit up to `await onLogin(username, password)`
HandleSubmit(username, password) ==
  /\ steps < MaxSteps
  /\ view.screen = "login"
  /\ ~(view.isLocked \/ view.isLoading)
  /\ view' = [view EXCEPT !.isLoading = TRUE]
  /\ pending' = Append(pending, [at |-> "login", username |-> username,
                                 password |-> password, alive |-> TRUE,
                                 period |-> Len(view.failedIn),
                                 due |-> now + SIMULATED_LATENCY])
  /\ steps' = steps + 1
  /\ UNCHANGED <<db, session, now, call, result, pre>>

\* api.login returns and handleSubmit goes on; after a successful login the
\* shell shows the chat and the form is unmounted
LoginReturns(i) ==
  /\ NextTimer(i)
  /\ LET p == pending[i]
         r == login(getDB, session, p.username, p.password)
         counted == [view EXCEPT !.failedIn[p.period] = @ + 1]
         idle == IF p.alive THEN [counted EXCEPT !.isLoading = FALSE] ELSE counted
     IN  /\ Apply([op |-> "login", via |-> "form", username |-> p.username,
                   password |-> p.password], r.db, r.session, r.ret)
         /\ view' = IF r.ret.success
                    THEN [view EXCEPT !.screen = "chat", !.isLoading = FALSE,
                                      !.interval = <<>>, !.loginAttempts = 0,
                                      !.failedIn = Append(@, 0)]
                    ELSE handleFailedLoginAttempt(idle, p.alive, now)
  /\ pending' = RemoveAt(pending, i)
  /\ UNCHANGED <<now, steps>>

\* the mounted form's interval runs updateTimer
UpdateTimer ==
  /\ view.screen = "login"
  /\ view.interval # <<>>
  /\ view.interval[1] <= now
  /\ view' = startLockoutTimer(view, view.interval[1], now)
  /\ UNCHANGED <<db, session, now, pending, call, result, pre, steps>>

\* an interval of an unmounted form runs updateTimer: its state updates are
\* lost, its removeItem and clearInterval are not
OrphanUpdateTimer(endTime) ==
  /\ endTime \in view.orphans
  /\ endTime <= now
  /\ view' = [view EXCEPT !.lockoutUntil = <<>>, !.orphans = @ \ {endTime}]
  /\ UNCHANGED <<db, session, now, pending, call, result, pre, steps>>

\* the form is unmounted and mounted again (a legal page is opened from the
\* landing page and left with 'back'); calls in flight go on
Remount ==
  /\ view.screen = "login"
  /\ view' = MountLoginPage(view, now)
  /\ pending' = [i \in 1..Len(pending) |-> [pending[i] EXCEPT !.alive = FALSE]]
  /\ UNCHANGED <<db, session, now, call, result, pre, steps>>

\* the page is reloaded: calls in flight and intervals are gone, sessionStorage
\* is kept
Reload ==
  /\ view.screen = "login"
  /\ view' = MountLoginPage([view EXCEPT !.orphans = {}], now)
  /\ pending' = <<>>
  /\ UNCHANGED <<db, session, now, call, result, pre, steps>>

\* App.handleLogout: back to the landing page, where the form is mounted
LogoutToLanding ==
  /\ view.screen = "chat"
  /\ LET r == logout(getDB, session)
     IN  Apply([op |-> "logout"], r.db, r.session, r.ret)
  /\ view' = MountLoginPage(view, now)
  /\ UNCHANGED <<now, pending, steps>>

\* the clock advances by a millisecond, or to the next instant at which a
\* call's delay or a lockout ends
LoginClock ==
  /\ LET instants == {pending[i].due : i \in 1..Len(pending)}
                       \cup {view.lockoutUntil[i] : i \in 1..Len(view.lockoutUntil)}
                       \cup {view.interval[i] : i \in 1..Len(view.interval)}
                       \cup view.orphans
         later == {t \in instants : t > now}
     IN  \/ /\ (now - StartTime) % SIMULATED_LATENCY < MaxDrift
            /\ now' = now + 1
         \/ /\ later # {}
            /\ now' = CHOOSE t \in later : \A u \in later : t <= u
  /\ UNCHANGED <<db, session, pending, call, result, pre, steps, view>>

InitLogin ==
  /\ db = defaultDb
  /\ session = NoSession
  /\ now = StartTime
  /\ pending = <<>>
  /\ call = [op |-> "none"]
  /\ result = [success |-> TRUE]
  /\ pre = db
  /\ steps = 0
  /\ \E attempts \in 0..(MAX_LOGIN_ATTEMPTS - 1) :
        view = [screen |-> "login", isLocked |-> FALSE, isLoading |-> FALSE,
                interval |-> <<>>, orphans |-> {}, loginAttempts |-> attempts,
                lockoutUntil |-> <<>>, failedIn |-> <<attempts>>, lastLockout |-> 0]

NextLogin ==
  \/ \E u \in SubmittedNames : \E pw \in SubmittedPasswords : HandleSubmit(u, pw)
  \/ \E i \in 1..Len(pending) : LoginReturns(i)
  \/ UpdateTimer
  \/ \E e \in view.orphans : OrphanUpdateTimer(e)
  \/ Remount
  \/ Reload
  \/ LogoutToLanding
  \/ LoginClock

SpecLogin == InitLogin /\ [][NextLogin]_vars

----------------------------------------------------------------------------
(* Properties of the login lockout (SpecLogin).                             *)

\* C26: at most 5 failed password submissions reach the login API without a
\* lockout or a successful login in between, the stored failure count never
\* reaches 5 (the 5th failure stores a lockout instead), and after a
\* successful login the count is zero.
C26_FiveFailuresThenLockout ==
  /\ \A e \in 1..Len(view.failedIn) : view.failedIn[e] <= MAX_LOGIN_ATTEMPTS
  /\ view.loginAttempts < MAX_LOGIN_ATTEMPTS
  /\ (call.op = "login" /\ result.success /\ view.screen = "chat") =>
        view.loginAttempts = 0

\* C27: as long as the lockout end that was stored lies in the future, the
\* mounted form is locked and lockoutUntil holds that end, also after a
\* reload or remount.
C27_LockedUntilLockoutPassed ==
  (view.screen = "login" /\ view.lastLockout > now) =>
     /\ view.isLocked
     /\ view.lockoutUntil = <<view.lastLockout>>

\* C28: in the chat's message list every assistant message other than the
\* welcome message (an answer or an error reply) is immediately preceded by a
\* user message, also when the chat was cleared or the user logged out while
\* the request was in flight.
C28_ReplyFollowsItsQuestion ==
  view.screen \in {"chat", "landing"} =>
     \A i \in 1..Len(view.messages) :
        (view.messages[i].sender = "atlas" /\ view.messages[i].id # <<"init">>) =>
           /\ i > 1
           /\ view.messages[i - 1].sender = "user"

----------------------------------------------------------------------------
(* The session entry and the stored record of the logged-in user            *)
(* (SpecSession): the calls that change a user's record, made by a          *)
(* logged-in admin or manager for themselves and for others.                *)

SessionTargets == {<<"a", "d", "m", "i", "n">>, <<"m", "a", "n", "a", "g", "e", "r">>}
SessionPayloads == {[password |-> "changed"], [mobile |-> "555-0100"]}
SessionPasswords == {"password", "fresh"}
SessionImports == {<<ImportRow(<<"m", "a", "n", "a", "g", "e", "r">>, "support")>>, <<ImportRow(<<"e", "r", "i", "n">>, "client")>>}

\* the profile's change-password form: api.updatePassword
UpdatePassword(username, oldPass, newPass) ==
  /\ steps < MaxSteps
  /\ LET r == updatePassword(getDB, username, oldPass, newPass)
     IN  Apply([op |-> "updatePassword", username |-> username, oldPass |-> oldPass,
                newPass |-> newPass], r.db, session, r.ret)
  /\ steps' = steps + 1
  /\ UNCHANGED <<now, pending, view>>

\* user management's reset-password dialog: api.resetUserPassword
ResetUserPassword(username, newPass) ==
  /\ steps < MaxSteps
  /\ LET r == resetUserPassword(getDB, username, newPass)
     IN  Apply([op |-> "resetUserPassword", username |-> username, newPass |-> newPass],
               r.db, session, r.ret)
  /\ steps' = steps + 1
  /\ UNCHANGED <<now, pending, view>>

\* a user has logged in: the session entry is the stored record
InitSession ==
  /\ db = defaultDb
  /\ \E i \in {1, 2} : session = login(defaultDb, NoSession, defaultUsers[i].username,
                                      "password").session
  /\ now = StartTime
  /\ pending = <<>>
  /\ call = [op |-> "none"]
  /\ result = [success |-> TRUE]
  /\ pre = db
  /\ steps = 0
  /\ view = NoView

NextSession ==
  \/ \E u \in SessionTargets, data \in SessionPayloads : UpdateUser(u, data)
  \/ \E i \in 1..Len(pending) : ResumeUpdateUser(i)
  \/ \E u \in SessionTargets, old \in SessionPasswords, new \in SessionPasswords :
        UpdatePassword(u, old, new)
  \/ \E u \in SessionTargets, new \in SessionPasswords : ResetUserPassword(u, new)
  \/ \E rows \in SessionImports : ImportUsers(rows)

SpecSession == InitSession /\ [][NextSession]_vars

\* C29: after a completed updateUser, updatePassword, resetUserPassword or
\* importUsers that changed the logged-in user's stored record, the session
\* copy that getCurrentUser returns equals that stored record.
C29_SessionCopyEqualsStoredRecord ==
  (/\ getCurrentUser # NoSession
   /\ \/ /\ call.op \in {"updatePassword", "resetUserPassword", "importUsers"}
         /\ StoredUser(db, getCurrentUser[1].username) #
              StoredUser(pre, getCurrentUser[1].username)
      \/ /\ call.op = "updateUser.resume"
         /\ call.username = getCurrentUser[1].username)
  => getCurrentUser[1] = StoredUser(db, getCurrentUser[1].username)

\* C30: every request the Google adapter sends carries the Google API key
\* that is stored when the request is made; after setApiKeys has changed the
\* stored key, the next generateAnswer for provider google uses the new key.
C30_GoogleRequestUsesStoredKey ==
  (call.op = "generateAnswer" /\ call.provider = "google" /\ call.request # <<>>) =>
     call.request[1].key = getApiKeys(view.apiKeys).google
====
